---- MODULE Spec2Model ----
(***************************************************************************)
(* Resource-allocation and cost engine of the school budget application:   *)
(*   CostCalculator          (src/models/CostCalculator.js)                *)
(*   OptimizationAlgorithm   (src/unnamed/part_003)                        *)
(*   ResourceAllocator       (src/models/ResourceAllocator.js)             *)
(*                                                                         *)
(* Ten specifications share the variables of this module:                  *)
(*   SpecDep    one call of CostCalculator.calculateDepreciation           *)
(*   SpecOpt    two runs of OptimizationAlgorithm.optimizeAllocation       *)
(*   SpecAlloc  one run of ResourceAllocator.allocateResources, stepped    *)
(*              at its await points                                        *)
(*   SpecConc   two runs of allocateResources on one allocator instance,   *)
(*              interleaved at their await points                          *)
(*   SpecRuns   two runs of each class on identical arguments              *)
(*   SpecCost   one call of CostCalculator.calculateComprehensiveCost      *)
(*   SpecValid  one run of each class on arguments that may be invalid     *)
(*   SpecScenario  one call of CostCalculator.generateScenarioAnalysis     *)
(*   SpecVariance  one call of CostCalculator.generateVarianceAnalysis     *)
(*   SpecCheapest  one run of allocateResources under cost minimization on *)
(*              courses whose candidate pairs tie on cost                  *)
(* A specification leaves the variables it does not use untouched.         *)
(***************************************************************************)
EXTENDS Integers, Sequences, FiniteSets, TLC

VARIABLES dep,      \* the calculateDepreciation call: arguments and result
          optIn,    \* arguments of optimizeAllocation (resources, courses, budget)
          opt,      \* per run of optimizeAllocation: position and locals
          clock,    \* the wall clock read by new Date()
          allocIn,  \* the caller of allocateResources: resources, courses, the budget it fetched; per run: constraints, strategy
          heap,     \* the objects holding currentLoad/currentUtilization and the course arrays
          run,      \* per run of allocateResources: position and locals
          calc      \* a call of another CostCalculator method: arguments and result

vars == <<dep, optIn, opt, clock, allocIn, heap, run, calc>>

\* no other CostCalculator method is called
CalcIdle == [pc |-> "idle"]

(***************************************************************************)
(* Exact rational arithmetic: a number is <<numerator, denominator>> in    *)
(* lowest terms with a positive denominator.                               *)
(***************************************************************************)
Abs(x) == IF x < 0 THEN -x ELSE x

RECURSIVE GCD(_, _)
GCD(a, b) == IF b = 0 THEN a ELSE GCD(b, a % b)

Rat(n, d) ==
    LET s == IF d < 0 THEN -1 ELSE 1
        g == GCD(Abs(n), Abs(d))
    IN  <<(s * n) \div g, (s * d) \div g>>

RInt(n)    == <<n, 1>>
RAdd(a, b) == Rat(a[1] * b[2] + b[1] * a[2], a[2] * b[2])
RSub(a, b) == Rat(a[1] * b[2] - b[1] * a[2], a[2] * b[2])
RMul(a, b) == LET x == Rat(a[1], b[2])
                  y == Rat(b[1], a[2])
              IN  Rat(x[1] * y[1], x[2] * y[2])
RLe(a, b)  == a[1] * b[2] <= b[1] * a[2]
RLt(a, b)  == a[1] * b[2] < b[1] * a[2]
RMin(a, b) == IF RLe(a, b) THEN a ELSE b
RMax(a, b) == IF RLe(a, b) THEN b ELSE a
\* Math.floor
RFloor(a)  == a[1] \div a[2]

(***************************************************************************)
(* CostCalculator.calculateDepreciation                                    *)
(***************************************************************************)
MaxYearsOwned == 5

STRAIGHT_LINE       == "straight_line"
DECLINING_BALANCE   == "declining_balance"
UNITS_OF_PRODUCTION == "units_of_production"
depreciationMethods == {STRAIGHT_LINE, DECLINING_BALANCE, UNITS_OF_PRODUCTION}

\* purchase costs, depreciation rates in 0..1 and years owned (in half years,
\* from a purchase date half a year in the future to MaxYearsOwned years ago)
PurchaseCosts == {0, 1, 300, 10000}
Rates         == {Rat(0, 1), Rat(1, 10), Rat(1, 4), Rat(3, 10), Rat(1, 2), Rat(3, 4), Rat(1, 1)}
YearsOwned    == {Rat(h, 2) : h \in -1..(2 * MaxYearsOwned)}

maxDepreciationFraction == Rat(9, 10)
residualFraction        == Rat(1, 10)
estimatedLifeHours      == 10000
annualUsageHours        == 2000

\* the loop of the declining-balance case: state after `year` iterations
RECURSIVE DecliningLoop(_, _, _, _, _)
DecliningLoop(year, wholeYears, decliningRate, remainingValue, totalDepreciation) ==
    IF year < wholeYears
    THEN LET yearlyDepreciation == RMul(remainingValue, decliningRate)
         IN  DecliningLoop(year + 1, wholeYears, decliningRate,
                           RSub(remainingValue, yearlyDepreciation),
                           RAdd(totalDepreciation, yearlyDepreciation))
    ELSE [remainingValue |-> remainingValue, totalDepreciation |-> totalDepreciation]

\* the cap of 90% of the purchase cost left out
straightLineAccumulatedUncapped(purchaseCost, annual, yearsOwned) ==
    RMul(annual, yearsOwned)

straightLineAccumulated(purchaseCost, annual, yearsOwned) ==
    RMin(RMul(annual, yearsOwned), RMul(RInt(purchaseCost), maxDepreciationFraction))

decliningAccumulated(loop) == loop.totalDepreciation

unitsAccumulated(purchaseCost, yearsOwned) ==
    RMul(Rat(purchaseCost, estimatedLifeHours), RMul(yearsOwned, RInt(annualUsageHours)))

\* the residual floor left out
residualFloorMissing(purchaseCost, accumulated) ==
    RSub(RInt(purchaseCost), accumulated)

residualFloor(purchaseCost, accumulated) ==
    RMax(RSub(RInt(purchaseCost), accumulated), RMul(RInt(purchaseCost), residualFraction))

calculateDepreciation(purchaseCost, yearsOwned, depreciationRate, method) ==
    LET loop == DecliningLoop(0, RFloor(yearsOwned), RMul(depreciationRate, RInt(2)),
                              RInt(purchaseCost), RInt(0))
        annual ==
            CASE method = STRAIGHT_LINE       -> RMul(RInt(purchaseCost), depreciationRate)
              [] method = DECLINING_BALANCE   -> RMul(loop.remainingValue, RMul(depreciationRate, RInt(2)))
              [] method = UNITS_OF_PRODUCTION -> RMul(Rat(purchaseCost, estimatedLifeHours), RInt(annualUsageHours))
        accumulated ==
            CASE method = STRAIGHT_LINE       -> straightLineAccumulated(purchaseCost, annual, yearsOwned)
              [] method = DECLINING_BALANCE   -> decliningAccumulated(loop)
              [] method = UNITS_OF_PRODUCTION -> unitsAccumulated(purchaseCost, yearsOwned)
    IN  [method                  |-> method,
         yearsOwned              |-> yearsOwned,
         annualDepreciation      |-> annual,
         accumulatedDepreciation |-> accumulated,
         currentValue            |-> residualFloor(purchaseCost, accumulated)]

NoDepreciation ==
    [method |-> "none", yearsOwned |-> RInt(0), annualDepreciation |-> RInt(0),
     accumulatedDepreciation |-> RInt(0), currentValue |-> RInt(0)]

DepIdle == [pc |-> "idle", purchaseCost |-> 0, rate |-> RInt(0), yearsOwned |-> RInt(0),
            method |-> "none", result |-> NoDepreciation]

DepInit ==
    \E p \in PurchaseCosts, r \in Rates, y \in YearsOwned, m \in depreciationMethods :
        dep = [pc |-> "call", purchaseCost |-> p, rate |-> r, yearsOwned |-> y,
               method |-> m, result |-> NoDepreciation]

CalculateDepreciation ==
    /\ dep.pc = "call"
    /\ dep' = [dep EXCEPT !.pc = "returned",
                          !.result = calculateDepreciation(dep.purchaseCost, dep.yearsOwned,
                                                           dep.rate, dep.method)]
    /\ UNCHANGED <<calc, optIn, opt, clock, allocIn, heap, run>>

(***************************************************************************)
(* Input data.  A string of the program is the set of the tokens it        *)
(* contains (String.includes is membership); an absent number is 0 and an  *)
(* absent string is "", as the code's `||` defaults read them.             *)
(***************************************************************************)
MaxInstructors == 2
MaxFacilities  == 2
MaxCourses     == 3

Undefined == -1

InstructorCatalog == <<
    [id |-> 1, department_id |-> 1, status |-> "ACTIVE", employment_type |-> "FULL_TIME",
     hourly_rate |-> 0, qualifications |-> {"PhD", "Math", "math"}, years_experience |-> 5],
    [id |-> 2, department_id |-> 1, status |-> "ACTIVE", employment_type |-> "ADJUNCT",
     hourly_rate |-> 50, qualifications |-> {"Masters"}, years_experience |-> 2],
    [id |-> 3, department_id |-> 2, status |-> "ACTIVE", employment_type |-> "PART_TIME",
     hourly_rate |-> 0, qualifications |-> {"Physics", "physics"}, years_experience |-> 12],
    [id |-> 4, department_id |-> 1, status |-> "ON_LEAVE", employment_type |-> "CONTRACT",
     hourly_rate |-> 0, qualifications |-> {}, years_experience |-> 0] >>

FacilityCatalog == <<
    [id |-> 1, department_id |-> 1, type |-> "CLASSROOM", capacity |-> 30, status |-> "AVAILABLE",
     hourly_cost |-> 20, utilities_cost_annual |-> 2080, maintenance_cost_annual |-> 1040],
    [id |-> 2, department_id |-> 2, type |-> "LAB", capacity |-> 45, status |-> "AVAILABLE",
     hourly_cost |-> 40, utilities_cost_annual |-> 4160, maintenance_cost_annual |-> 0],
    [id |-> 3, department_id |-> 0, type |-> "CLASSROOM", capacity |-> 60, status |-> "AVAILABLE",
     hourly_cost |-> 0, utilities_cost_annual |-> 0, maintenance_cost_annual |-> 500],
    [id |-> 4, department_id |-> 1, type |-> "CLASSROOM", capacity |-> 50, status |-> "MAINTENANCE",
     hourly_cost |-> 5, utilities_cost_annual |-> 0, maintenance_cost_annual |-> 0] >>

CourseCatalog == <<
    [id |-> 1, department_id |-> 1, expected_students |-> 25, name |-> "Math", subject |-> "Math",
     instructor_cost |-> 3000, classroom_cost |-> 500, hours_per_week |-> 3, credit_hours |-> 3,
     facility_type |-> "", type |-> "LECTURE", is_required |-> TRUE, level |-> 101],
    [id |-> 2, department_id |-> 1, expected_students |-> 20, name |-> "Art", subject |-> "",
     instructor_cost |-> 2500, classroom_cost |-> 400, hours_per_week |-> 0, credit_hours |-> 0,
     facility_type |-> "CLASSROOM", type |-> "LECTURE", is_required |-> FALSE, level |-> 0],
    [id |-> 3, department_id |-> 1, expected_students |-> 40, name |-> "Physics", subject |-> "Physics",
     instructor_cost |-> 3500, classroom_cost |-> 800, hours_per_week |-> 4, credit_hours |-> 4,
     facility_type |-> "LAB", type |-> "LAB", is_required |-> TRUE, level |-> 350],
    [id |-> 4, department_id |-> 2, expected_students |-> 0, name |-> "Seminar", subject |-> "",
     instructor_cost |-> 0, classroom_cost |-> 0, hours_per_week |-> 1, credit_hours |-> 1,
     facility_type |-> "", type |-> "SEMINAR", is_required |-> FALSE, level |-> 200],
    [id |-> 5, department_id |-> 2, expected_students |-> 28, name |-> "Physics", subject |-> "physics",
     instructor_cost |-> 400, classroom_cost |-> 100, hours_per_week |-> 2, credit_hours |-> 2,
     facility_type |-> "", type |-> "LECTURE", is_required |-> FALSE, level |-> 120] >>

\* the sub-lists of a catalog with at most n entries, in catalog order
RECURSIVE Pick(_, _, _)
Pick(catalog, from, n) ==
    IF from > Len(catalog) \/ n = 0
    THEN {<<>>}
    ELSE Pick(catalog, from + 1, n)
         \cup {<<catalog[from]>> \o rest : rest \in Pick(catalog, from + 1, n - 1)}

Departments == {1, 2}

(***************************************************************************)
(* Array.prototype.sort with a comparator: a stable sort.  before[i][j]    *)
(* says the comparator puts element i strictly before element j; the       *)
(* result is the order of the indices.                                     *)
(***************************************************************************)
RECURSIVE InsertSorted(_, _, _, _)
InsertSorted(order, k, x, before) ==
    IF k > Len(order) THEN Append(order, x)
    ELSE IF before[x][order[k]]
         THEN SubSeq(order, 1, k - 1) \o <<x>> \o SubSeq(order, k, Len(order))
         ELSE InsertSorted(order, k + 1, x, before)

RECURSIVE SortedOrder(_, _, _)
SortedOrder(order, x, before) ==
    IF x > Len(before) THEN order
    ELSE SortedOrder(InsertSorted(order, 1, x, before), x + 1, before)

(***************************************************************************)
(* OptimizationAlgorithm (src/unnamed/part_003)                            *)
(* Money is kept in tenths of a currency unit (the instructor multipliers  *)
(* are 0.7, 0.8, 1.0, 1.2).                                                *)
(***************************************************************************)
budgetBufferPercent == 5
minClassSize == 8
maxClassSize == 35
semesterHours == 45

\* the arguments are JavaScript values: coursesType says whether the courses
\* argument is an array, undefined or another object, and the courses are
\* its elements when it is an array
ArgumentTypes == {"array", "undefined", "object"}
TypeError == "TypeError"

validateInputs(resources, courses, budget) ==
    /\ resources.hasInstructors /\ resources.hasFacilities
    /\ Len(courses) > 0
    /\ \A k \in 1..Len(courses) :
          courses[k].id # 0 /\ courses[k].department_id # 0 /\ courses[k].expected_students # 0

calculateCombinationCost(course, instructor, facility) ==
    LET baseCost == course.instructor_cost
        facilityCost == IF facility.hourly_cost * semesterHours # 0
                        THEN facility.hourly_cost * semesterHours
                        ELSE course.classroom_cost
        instructorMultiplier ==
            CASE instructor.employment_type = "ADJUNCT"   -> 7
              [] instructor.employment_type = "PART_TIME" -> 8
              [] instructor.employment_type = "FULL_TIME" -> 10
              [] instructor.employment_type = "CONTRACT"  -> 12
              [] OTHER -> 10
    IN  baseCost * instructorMultiplier + 10 * facilityCost

calculateUtilityScore(course, instructor, facility) ==
    LET qualified == IF course.name \in instructor.qualifications THEN 20 ELSE 0
        \* capacityUtilization = expected_students / capacity
        fit == IF 10 * course.expected_students >= 7 * facility.capacity
                  /\ 10 * course.expected_students <= 9 * facility.capacity THEN 15
               ELSE IF 2 * course.expected_students < facility.capacity THEN -10
               ELSE 0
        sameDept == IF facility.department_id = instructor.department_id THEN 10 ELSE 0
    IN  100 + qualified + fit + sameDept

checkConstraints(course, instructor, facility) ==
    [feasible   |-> ~(course.expected_students > facility.capacity),
     violations |-> (IF course.expected_students < minClassSize THEN <<"Class size below minimum">> ELSE <<>>)
                    \o (IF course.expected_students > maxClassSize THEN <<"Class size above maximum">> ELSE <<>>)
                    \o (IF course.expected_students > facility.capacity THEN <<"Facility capacity exceeded">> ELSE <<>>)]

availableInstructors(resources, course) ==
    SelectSeq(resources.instructors,
              LAMBDA i : i.department_id = course.department_id /\ i.status = "ACTIVE")

suitableFacilities(resources, course) ==
    SelectSeq(resources.facilities,
              LAMBDA f : /\ f.capacity >= course.expected_students
                         /\ f.status = "AVAILABLE"
                         /\ (f.department_id = course.department_id \/ f.type = "CLASSROOM"))

\* the combinations of one course, instructors in the outer loop
courseCombinations(resources, course) ==
    LET ins == availableInstructors(resources, course)
        fs  == suitableFacilities(resources, course)
        all == [k \in 1..(Len(ins) * Len(fs)) |->
                  LET instructor == ins[((k - 1) \div Len(fs)) + 1]
                      facility   == fs[((k - 1) % Len(fs)) + 1]
                  IN  [courseId     |-> course.id,
                       instructorId |-> instructor.id,
                       facilityId   |-> facility.id,
                       cost         |-> calculateCombinationCost(course, instructor, facility),
                       utilityScore |-> calculateUtilityScore(course, instructor, facility),
                       constraints  |-> checkConstraints(course, instructor, facility)]]
    IN  SelectSeq(all, LAMBDA c : c.constraints.feasible)

RECURSIVE allCombinations(_, _, _)
allCombinations(resources, courses, k) ==
    IF k > Len(courses) THEN <<>>
    ELSE courseCombinations(resources, courses[k]) \o allCombinations(resources, courses, k + 1)

generateFeasibleCombinations(resources, courses) ==
    LET combinations == allCombinations(resources, courses, 1)
        before == [a \in 1..Len(combinations) |-> [b \in 1..Len(combinations) |->
                      combinations[b].utilityScore - combinations[a].utilityScore < 0]]
        order  == SortedOrder(<<>>, 1, before)
    IN  [k \in 1..Len(combinations) |-> combinations[order[k]]]

getDepartmentId(courseId) == 1

\* departmentSpending[deptId] after Object.keys(budget).forEach: 0 for a key of
\* budget, undefined otherwise; undefined + cost is NaN
NaN == -2
initialSpending(budget, deptId) == IF budget[deptId] = Undefined THEN Undefined ELSE 0
addSpending(spent, cost) == IF spent \in {Undefined, NaN} THEN NaN ELSE spent + cost

\* departmentSpending[deptId] + cost > budget[deptId] * (1 - budgetBuffer); a
\* comparison with NaN is false
overBudget(spent, cost, budget, deptId) ==
    /\ spent \notin {Undefined, NaN}
    /\ budget[deptId] # Undefined
    /\ 100 * (spent + cost) > 10 * budget[deptId] * (100 - budgetBufferPercent)

\* the usedInstructors check left out
instructorNeverTaken(usedInstructors, combination) == FALSE

instructorTaken(usedInstructors, combination) == combination.instructorId \in usedInstructors
facilityTaken(usedFacilities, combination)    == combination.facilityId \in usedFacilities

RECURSIVE greedyLoop(_, _, _, _, _, _, _, _)
greedyLoop(combinations, k, budget, now, assignments, usedInstructors, usedFacilities, spending) ==
    IF k > Len(combinations) THEN assignments
    ELSE LET combination == combinations[k]
             deptId == getDepartmentId(combination.courseId)
         IN  IF \/ instructorTaken(usedInstructors, combination)
                \/ overBudget(spending[deptId], combination.cost, budget, deptId)
                \/ facilityTaken(usedFacilities, combination)
             THEN greedyLoop(combinations, k + 1, budget, now, assignments,
                             usedInstructors, usedFacilities, spending)
             ELSE greedyLoop(combinations, k + 1, budget, now,
                             Append(assignments,
                                    [courseId     |-> combination.courseId,
                                     instructorId |-> combination.instructorId,
                                     facilityId   |-> combination.facilityId,
                                     cost         |-> combination.cost,
                                     utilityScore |-> combination.utilityScore,
                                     assignedAt   |-> now]),
                             usedInstructors \cup {combination.instructorId},
                             usedFacilities \cup {combination.facilityId},
                             [spending EXCEPT ![deptId] = addSpending(@, combination.cost)])

greedyOptimization(combinations, budget, now) ==
    greedyLoop(combinations, 1, budget, now, <<>>, {}, {},
               [d \in Departments |-> initialSpending(budget, d)])

\* a JavaScript number that may be NaN: <<0, 0>> is NaN (0 / 0)
RNaN == <<0, 0>>
IsNaN(x) == x[2] = 0
Ratio(a, b) == IF b = 0 THEN RNaN ELSE Rat(a, b)
NAdd(a, b) == IF IsNaN(a) \/ IsNaN(b) THEN RNaN ELSE RAdd(a, b)
NMul(a, b) == IF IsNaN(a) \/ IsNaN(b) THEN RNaN ELSE RMul(a, b)
NLt(a, b)  == ~IsNaN(a) /\ ~IsNaN(b) /\ RLt(a, b)
\* Math.round
NRound(a)  == IF IsNaN(a) THEN RNaN ELSE RInt(RFloor(RAdd(a, Rat(1, 2))))

Ids(assignments, field) == {assignments[k][field] : k \in 1..Len(assignments)}

RECURSIVE SumCost(_, _)
SumCost(assignments, k) ==
    IF k > Len(assignments) THEN 0 ELSE assignments[k].cost + SumCost(assignments, k + 1)

calculateUtilization(assignments, resources) ==
    LET assignedInstructors == Cardinality(Ids(assignments, "instructorId"))
        assignedFacilities  == Cardinality(Ids(assignments, "facilityId"))
        pI == NMul(Ratio(assignedInstructors, Len(resources.instructors)), RInt(100))
        pF == NMul(Ratio(assignedFacilities, Len(resources.facilities)), RInt(100))
    IN  [instructors |-> [assigned |-> assignedInstructors, total |-> Len(resources.instructors),
                          percentage |-> pI],
         facilities  |-> [assigned |-> assignedFacilities, total |-> Len(resources.facilities),
                          percentage |-> pF],
         overall     |-> [efficiency |-> NMul(NAdd(pI, pF), Rat(1, 2))]]

\* money of the breakdown in currency units (assignment costs are in tenths)
calculateCostBreakdown(assignments) ==
    LET totalCost == Rat(SumCost(assignments, 1), 10)
        depts == {getDepartmentId(assignments[k].courseId) : k \in 1..Len(assignments)}
    IN  [totalCost            |-> totalCost,
         departmentCosts      |-> [d \in depts |-> totalCost],
         averageCostPerCourse |-> IF Len(assignments) > 0
                                  THEN RMul(totalCost, Rat(1, Len(assignments)))
                                  ELSE RInt(0)]

benchmark == 8000

calculateCostEfficiency(costBreakdown) ==
    LET avgCost == costBreakdown.averageCostPerCourse
    IN  IF RLe(avgCost, RMul(RInt(benchmark), Rat(8, 10))) THEN 100
        ELSE IF RLe(avgCost, RInt(benchmark)) THEN 80
        ELSE IF RLe(avgCost, RMul(RInt(benchmark), Rat(12, 10))) THEN 60
        ELSE 40

constraintScore(warnings) ==
    IF Len(warnings) = 0 THEN 100
    ELSE IF 100 - Len(warnings) * 10 > 0 THEN 100 - Len(warnings) * 10 ELSE 0

calculateOptimizationScore(allocationPlan) ==
    LET utilizationScore == allocationPlan.resourceUtilization.overall.efficiency
        costEfficiency   == calculateCostEfficiency(allocationPlan.costBreakdown)
    IN  NRound(NAdd(NAdd(NMul(utilizationScore, Rat(4, 10)),
                         RMul(RInt(costEfficiency), Rat(3, 10))),
                    RMul(RInt(constraintScore(allocationPlan.warnings)), Rat(3, 10))))

generateWarnings(allocationPlan) ==
    (IF NLt(allocationPlan.resourceUtilization.instructors.percentage, RInt(70))
     THEN <<"Low instructor utilization detected">> ELSE <<>>)
    \o (IF NLt(allocationPlan.resourceUtilization.facilities.percentage, RInt(60))
        THEN <<"Low facility utilization detected">> ELSE <<>>)
    \o (IF NLt(allocationPlan.optimizationScore, RInt(70))
        THEN <<"Overall optimization score is below target">> ELSE <<>>)

highCostThreshold == 10000

generateRecommendations(allocationPlan) ==
    (IF NLt(RInt(90), allocationPlan.resourceUtilization.instructors.percentage)
     THEN <<"Consider hiring additional instructors to reduce workload">> ELSE <<>>)
    \o (IF NLt(RInt(85), allocationPlan.resourceUtilization.facilities.percentage)
        THEN <<"Facility capacity is near maximum - consider expanding or optimizing schedules">> ELSE <<>>)
    \o (IF RLt(RInt(highCostThreshold), allocationPlan.costBreakdown.averageCostPerCourse)
        THEN <<"High average cost per course - review instructor assignments and facility usage">> ELSE <<>>)

EmptyPlan ==
    [courseAssignments |-> <<>>, resourceUtilization |-> <<>>, costBreakdown |-> <<>>,
     optimizationScore |-> RInt(0), warnings |-> <<>>, recommendations |-> <<>>]

\* steps 2 to 7 of optimizeAllocation, on validated inputs
optimizedPlan(resources, courses, budget, now) ==
    LET feasibleCombinations == generateFeasibleCombinations(resources, courses)
        optimizedAssignments == greedyOptimization(feasibleCombinations, budget, now)
        p1 == [EmptyPlan EXCEPT !.resourceUtilization = calculateUtilization(optimizedAssignments, resources)]
        p2 == [p1 EXCEPT !.costBreakdown = calculateCostBreakdown(optimizedAssignments)]
        p3 == [p2 EXCEPT !.optimizationScore = calculateOptimizationScore(p2)]
        p4 == [p3 EXCEPT !.warnings = generateWarnings(p3)]
        p5 == [p4 EXCEPT !.recommendations = generateRecommendations(p4)]
    IN  [p5 EXCEPT !.courseAssignments = optimizedAssignments]

MaxClock == 2
OptRuns  == {1, 2}

Budgets ==
    { [d \in Departments |-> 10000],
      [d \in Departments |-> IF d = 1 THEN 10000 ELSE 100],
      [d \in Departments |-> IF d = 1 THEN 4000 ELSE 10000],
      [d \in Departments |-> IF d = 1 THEN Undefined ELSE 5000],
      [d \in Departments |-> Undefined] }

Resources(instructors, facilities) ==
    [hasInstructors |-> TRUE, hasFacilities |-> TRUE,
     instructors |-> instructors, facilities |-> facilities, equipment |-> <<>>]

OptIdleIn == [resources |-> Resources(<<>>, <<>>), courses |-> <<>>, coursesType |-> "array",
              budget |-> [d \in Departments |-> Undefined]]
OptIdle   == [r \in OptRuns |-> [pc |-> "idle", plan |-> EmptyPlan, error |-> ""]]

OptInit ==
    /\ \E ins \in Pick(InstructorCatalog, 1, MaxInstructors),
          fs \in Pick(FacilityCatalog, 1, MaxFacilities),
          cs \in Pick(CourseCatalog, 1, MaxCourses),
          b \in Budgets :
          optIn = [resources |-> Resources(ins, fs), courses |-> cs, coursesType |-> "array",
                      budget |-> b]
    /\ opt = [r \in OptRuns |-> [pc |-> "call", plan |-> EmptyPlan, error |-> ""]]
    /\ clock = 0

\* the error optimizeAllocation throws on these arguments, "" when it throws
\* none.  validateInputs collects its messages and then calls courses.forEach
\* whatever it found: on a courses argument that is no array the call throws
\* a TypeError, which optimizeAllocation rethrows.
optimizationError(resources, coursesType, courses, budget) ==
    IF coursesType # "array" THEN TypeError
    ELSE IF ~validateInputs(resources, courses, budget) THEN "Input validation failed"
    ELSE ""

\* optimizeAllocation has no await: a run is one step
OptimizeAllocation(r) ==
    /\ opt[r].pc = "call"
    /\ LET error == optimizationError(optIn.resources, optIn.coursesType, optIn.courses,
                                      optIn.budget)
       IN  IF error = ""
           THEN opt' = [opt EXCEPT ![r] = [pc |-> "returned", error |-> "",
                           plan |-> optimizedPlan(optIn.resources, optIn.courses, optIn.budget,
                                                  clock)]]
           ELSE opt' = [opt EXCEPT ![r] = [pc |-> "threw", plan |-> EmptyPlan, error |-> error]]
    /\ UNCHANGED <<calc, dep, optIn, clock, allocIn, heap, run>>

Tick ==
    /\ clock < MaxClock
    /\ clock' = clock + 1
    /\ UNCHANGED <<calc, dep, optIn, opt, allocIn, heap, run>>

(***************************************************************************)
(* CostCalculator cost functions (src/models/CostCalculator.js).           *)
(* A cost is an integer number of 1/CostScale currency units: every rate   *)
(* of the code is a whole percentage and the pro-rating of annual figures  *)
(* divides by 52 * 40 = 2080 = 5 * 416, so each component is exact.        *)
(***************************************************************************)
CostScale == 100 * 416
Percent(amount, pct) == amount * pct * (CostScale \div 100)
\* scaled * pct / 100 of an amount already scaled, in steps that stay in range
ScaledPercent(scaled, pct) == (scaled \div 100) * pct + ((scaled % 100) * pct) \div 100

weeksPerSemester == 15
defaultAdjunctRate == 50
annualUsage == 52 * 40

\* costStructures: which keys the caller passed; the allocator passes none
NoCostStructures ==
    [instructor_differential |-> FALSE, facility_overhead |-> FALSE,
     administrativePct |-> 0, generalPct |-> 0]

hoursPerSemester(course) ==
    IF course.hours_per_week * weeksPerSemester # 0
    THEN course.hours_per_week * weeksPerSemester
    ELSE semesterHours

\* percentage added to the base salary
getInstructorDifferential(instructor, costStructures) ==
    IF ~costStructures.instructor_differential THEN 0
    ELSE (IF "PhD" \in instructor.qualifications THEN 15 ELSE 0)
         + (IF "Masters" \in instructor.qualifications THEN 8 ELSE 0)

getFacilityOverheadRate(facility, costStructures) ==
    IF ~costStructures.facility_overhead THEN 10
    ELSE CASE facility.type = "LAB"        -> 20
           [] facility.type = "AUDITORIUM" -> 15
           [] OTHER                        -> 10

calculateInstructorCosts(course, instructor, costStructures) ==
    LET baseCost == course.instructor_cost
        adjunct  == (IF instructor.hourly_rate # 0 THEN instructor.hourly_rate ELSE defaultAdjunctRate)
                    * hoursPerSemester(course)
        baseSalary ==
            CASE instructor.employment_type = "FULL_TIME" -> Percent(baseCost, 100)
              [] instructor.employment_type = "PART_TIME" -> Percent(baseCost, 80)
              [] instructor.employment_type = "ADJUNCT"   -> Percent(adjunct, 100)
              [] instructor.employment_type = "CONTRACT"  -> Percent(baseCost, 120)
              [] OTHER                                    -> Percent(baseCost, 100)
        benefits ==
            CASE instructor.employment_type = "FULL_TIME" -> Percent(baseCost, 30)
              [] instructor.employment_type = "PART_TIME" -> Percent(baseCost, 15)
              [] instructor.employment_type = "ADJUNCT"   -> Percent(adjunct, 5)
              [] instructor.employment_type = "CONTRACT"  -> 0
              [] OTHER                                    -> Percent(baseCost, 20)
        differential == ScaledPercent(baseSalary, getInstructorDifferential(instructor, costStructures))
    IN  [baseSalary |-> baseSalary, benefits |-> benefits, differential |-> differential,
         total |-> baseSalary + benefits + differential]

calculateFacilityCosts(course, facility, costStructures) ==
    LET hours       == hoursPerSemester(course)
        baseRental  == Percent(facility.hourly_cost * hours, 100)
        utilities   == facility.utilities_cost_annual * hours * (CostScale \div annualUsage)
        maintenance == facility.maintenance_cost_annual * hours * (CostScale \div annualUsage)
        overhead    == ScaledPercent(baseRental, getFacilityOverheadRate(facility, costStructures))
    IN  [baseRental |-> baseRental, utilities |-> utilities, maintenance |-> maintenance,
         overhead |-> overhead, total |-> baseRental + utilities + maintenance + overhead]

\* CostScale times a rational amount whose denominator divides CostScale
Scaled(amount) == amount[1] * (CostScale \div amount[2])

RECURSIVE equipmentSums(_, _)
equipmentSums(equipment, k) ==
    IF k > Len(equipment) THEN [depreciation |-> 0, maintenance |-> 0]
    ELSE LET item == equipment[k]
             depreciation == calculateDepreciation(item.purchase_cost, item.years_owned,
                                                   item.depreciation_rate, STRAIGHT_LINE)
             rest == equipmentSums(equipment, k + 1)
         IN  [depreciation |-> Scaled(depreciation.annualDepreciation) \div 2 + rest.depreciation,
              maintenance  |-> Percent(item.maintenance_cost_annual, 50) + rest.maintenance]

calculateEquipmentCosts(equipment, expectedStudents) ==
    LET costs(sums) ==
            [depreciation |-> sums.depreciation, maintenance |-> sums.maintenance,
             perStudentAllocation |-> IF expectedStudents > 0
                                      THEN Ratio(sums.depreciation + sums.maintenance, expectedStudents)
                                      ELSE RInt(0),
             total |-> sums.depreciation + sums.maintenance]
    IN  costs(equipmentSums(equipment, 1))

defaultAdministrativePct == 12
defaultGeneralPct == 8

calculateOverheadCosts(course, costStructures) ==
    LET directCosts == course.instructor_cost + course.classroom_cost
        adminRate   == IF costStructures.administrativePct # 0 THEN costStructures.administrativePct
                       ELSE defaultAdministrativePct
        generalRate == IF costStructures.generalPct # 0 THEN costStructures.generalPct
                       ELSE defaultGeneralPct
        administrative == Percent(directCosts, adminRate)
        general        == Percent(directCosts, generalRate)
    IN  [administrative |-> administrative, general |-> general, total |-> administrative + general]

defaultCreditHours == 3

\* costPerStudent and costPerCreditHour are amounts of 1/CostScale units;
\* x / 0 is Infinity for x > 0 and NaN for x = 0
Infinity == <<1, 0>>
Quotient(a, b) == IF b # 0 THEN Rat(a, b) ELSE IF a = 0 THEN RNaN ELSE Infinity

calculateComprehensiveCost(course, instructor, facility, equipment, costStructures) ==
    LET creditHours == IF course.credit_hours # 0 THEN course.credit_hours ELSE defaultCreditHours
        comprehensive(instructorCosts, facilityCosts, equipmentCosts, overheadCosts) ==
            LET totalCost == instructorCosts.total + facilityCosts.total
                             + equipmentCosts.total + overheadCosts.total
            IN  [instructorCosts |-> instructorCosts,
                 facilityCosts   |-> facilityCosts,
                 equipmentCosts  |-> equipmentCosts,
                 overheadCosts   |-> overheadCosts,
                 totalCost       |-> totalCost,
                 costPerStudent  |-> IF course.expected_students > 0
                                     THEN Rat(totalCost, course.expected_students) ELSE RInt(0),
                 costPerCreditHour |-> IF creditHours > 0
                                       THEN Quotient(totalCost, course.expected_students * creditHours)
                                       ELSE RInt(0)]
    IN  comprehensive(calculateInstructorCosts(course, instructor, costStructures),
                      calculateFacilityCosts(course, facility, costStructures),
                      calculateEquipmentCosts(equipment, course.expected_students),
                      calculateOverheadCosts(course, costStructures))

(***************************************************************************)
(* ResourceAllocator (src/models/ResourceAllocator.js)                     *)
(***************************************************************************)
COST_MINIMIZATION        == "cost_minimization"
UTILIZATION_MAXIMIZATION == "utilization_maximization"
BALANCED                 == "balanced"
QUALITY_FOCUSED          == "quality_focused"
allocationStrategies ==
    {COST_MINIMIZATION, UTILIZATION_MAXIMIZATION, BALANCED, QUALITY_FOCUSED}

\* this.constraints.maxInstructorLoad
maxInstructorLoad == 6

\* { ...this.constraints, ...constraints }: the caller's value wins when given
mergedConstraints(constraints) ==
    [maxInstructorLoad |-> IF constraints.maxInstructorLoad # Undefined
                           THEN constraints.maxInstructorLoad ELSE maxInstructorLoad]

validateAllocationInputs(resources, courses) ==
    /\ resources.hasInstructors /\ resources.hasFacilities
    /\ Len(courses) > 0
    /\ \A k \in 1..Len(courses) : courses[k].id # 0 /\ courses[k].department_id # 0
    /\ \A k \in 1..Len(resources.instructors) :
          resources.instructors[k].id # 0 /\ resources.instructors[k].department_id # 0

\* the message of the error allocateResources throws on these arguments
\* (after "Resource allocation failed: "), "" when it throws none
allocationError(resources, coursesType, courses) ==
    IF ~(resources.hasInstructors /\ resources.hasFacilities)
    THEN "Invalid resources data structure"
    ELSE IF coursesType # "array" \/ Len(courses) = 0
    THEN "No courses provided for allocation"
    ELSE IF ~validateAllocationInputs(resources, courses)
    THEN "missing required fields (id, department_id)"
    ELSE ""

calculateQualificationScore(instructor) ==
    LET degree == IF "PhD" \in instructor.qualifications THEN 30
                  ELSE IF "Masters" \in instructor.qualifications THEN 20
                  ELSE IF "Bachelors" \in instructor.qualifications THEN 10
                  ELSE 0
        experience == IF instructor.years_experience * 2 < 20
                      THEN instructor.years_experience * 2 ELSE 20
    IN  50 + degree + experience

\* 5 * priority (the class-size term is expected_students / 5, at most 20)
calculateCoursePriority(course) ==
    250 + (IF course.expected_students < 100 THEN course.expected_students ELSE 100)
        + (IF course.is_required THEN 75 ELSE 0)
        + (IF course.level > 100 THEN 50 ELSE 0)

\* 10 * complexity
calculateCourseComplexity(course) ==
    10 + (IF course.type = "LAB" THEN 5 ELSE 0)
       + (IF course.level > 300 THEN 3 ELSE 0)
       + (IF course.expected_students > 30 THEN 2 ELSE 0)

\* String.toLowerCase on the tokens of the input data
ToLowerCase(token) ==
    CASE token = "Math"    -> "math"
      [] token = "Physics" -> "physics"
      [] OTHER             -> token

findCompatibleInstructors(course, instructors) ==
    SelectSeq(instructors,
              LAMBDA i : \/ i.department_id = course.department_id
                         \/ /\ i.qualifications # {} /\ course.subject # ""
                            /\ ToLowerCase(course.subject)
                                  \in {ToLowerCase(q) : q \in i.qualifications})

requiredFacilityType(course) ==
    IF course.facility_type # "" THEN course.facility_type ELSE "CLASSROOM"

findCompatibleFacilities(course, facilities) ==
    SelectSeq(facilities,
              LAMBDA f : /\ ~(f.capacity < course.expected_students)
                         /\ ~(f.type # requiredFacilityType(course) /\ f.type # "CLASSROOM")
                         /\ ~(f.status # "AVAILABLE"))

\* the instructor load check left out
checkCapacityOnly(course, load, facility, constraints) ==
    ~(facility.capacity < course.expected_students)

\* load is the currentLoad of the instructor object the run holds
checkAssignmentConstraints(course, load, facility, constraints) ==
    /\ ~(load >= constraints.maxInstructorLoad)
    /\ ~(facility.capacity < course.expected_students)

findOptimalTimeSlot == [day |-> "Monday", startTime |-> "10:00", endTime |-> "11:00"]

\* (studentCapacityRatio + instructorLoadRatio) / 2 * 100
calculateAssignmentUtilization(course, load, facility) ==
    Rat(100 * (maxInstructorLoad * course.expected_students + load * facility.capacity),
        2 * maxInstructorLoad * facility.capacity)

\* 10 * quality
calculateAssignmentQuality(course, instructor, facility) ==
    500 + calculateQualificationScore(instructor) * 3
        + (IF facility.type = course.facility_type THEN 200 ELSE 0)
        + (IF 10 * course.expected_students >= 7 * facility.capacity
              /\ 10 * course.expected_students <= 9 * facility.capacity THEN 150 ELSE 0)

\* Scores that divide by a cost are kept in thousandths, each term rounded
\* down to a thousandth; a division by a zero cost is Infinity.
InfiniteScore == 2000000000
costInCents(cost) == cost \div (CostScale \div 100)

\* quality * 0.4 + utilization * 0.3 + (1 / totalCost) * 10000 * 0.3
balancedScoreOf(quality10, utilization, totalCost) ==
    IF costInCents(totalCost) = 0 THEN InfiniteScore
    ELSE quality10 * 40 + RFloor(RMul(utilization, RInt(300)))
         + (300000000 \div costInCents(totalCost))

NoAssignment ==
    [courseId |-> 0, instructorId |-> 0, facilityId |-> 0, cost |-> Undefined,
     utilization |-> RNaN, qualityScore |-> Undefined, balancedScore |-> Undefined,
     timeSlot |-> findOptimalTimeSlot]

\* the candidate built for one (instructor, facility) pair by find<Strategy>OptimalAssignment
candidateAssignment(strategy, course, instructor, load, facility, equipment) ==
    LET base == [NoAssignment EXCEPT !.courseId = course.id, !.instructorId = instructor.id,
                                     !.facilityId = facility.id]
        candidate(cost, utilization, quality) ==
            CASE strategy = COST_MINIMIZATION ->
                   [base EXCEPT !.cost = cost.totalCost]
              [] strategy = UTILIZATION_MAXIMIZATION ->
                   [base EXCEPT !.utilization = utilization]
              [] strategy = QUALITY_FOCUSED ->
                   [base EXCEPT !.qualityScore = quality]
              [] OTHER ->
                   [base EXCEPT !.cost = cost.totalCost, !.utilization = utilization,
                                !.qualityScore = quality,
                                !.balancedScore = balancedScoreOf(quality, utilization,
                                                                  cost.totalCost)]
    IN  candidate(calculateComprehensiveCost(course, instructor, facility, equipment,
                                             NoCostStructures),
                  calculateAssignmentUtilization(course, load, facility),
                  calculateAssignmentQuality(course, instructor, facility))

\* the comparison of the cost strategy made non-strict: the last pair of the
\* lowest cost wins
improvesOrTiesOnCost(strategy, candidate, best) ==
    CASE strategy = COST_MINIMIZATION ->
           best = NoAssignment \/ candidate.cost <= best.cost
      [] strategy = UTILIZATION_MAXIMIZATION ->
           IF best = NoAssignment THEN RLt(RInt(0), candidate.utilization)
           ELSE RLt(best.utilization, candidate.utilization)
      [] strategy = QUALITY_FOCUSED ->
           IF best = NoAssignment THEN candidate.qualityScore > 0
           ELSE candidate.qualityScore > best.qualityScore
      [] OTHER ->
           IF best = NoAssignment THEN candidate.balancedScore > 0
           ELSE candidate.balancedScore > best.balancedScore

\* the strict comparison of each strategy against its running best, which
\* starts at Infinity (cost) or 0 (utilization, quality, balanced score)
improves(strategy, candidate, best) ==
    CASE strategy = COST_MINIMIZATION ->
           best = NoAssignment \/ candidate.cost < best.cost
      [] strategy = UTILIZATION_MAXIMIZATION ->
           IF best = NoAssignment THEN RLt(RInt(0), candidate.utilization)
           ELSE RLt(best.utilization, candidate.utilization)
      [] strategy = QUALITY_FOCUSED ->
           IF best = NoAssignment THEN candidate.qualityScore > 0
           ELSE candidate.qualityScore > best.qualityScore
      [] OTHER ->
           IF best = NoAssignment THEN candidate.balancedScore > 0
           ELSE candidate.balancedScore > best.balancedScore

\* the two nested loops: instructors outside, facilities inside
RECURSIVE findLoop(_, _, _, _, _, _, _, _, _)
findLoop(strategy, course, ins, fs, k, loads, constraints, equipment, best) ==
    IF k > Len(ins) * Len(fs) THEN best
    ELSE LET instructor == ins[((k - 1) \div Len(fs)) + 1]
             facility   == fs[((k - 1) % Len(fs)) + 1]
             next(candidate) ==
                 IF /\ checkAssignmentConstraints(course, loads[instructor.id], facility,
                                                  constraints)
                    /\ improves(strategy, candidate, best)
                 THEN findLoop(strategy, course, ins, fs, k + 1, loads, constraints, equipment,
                               candidate)
                 ELSE findLoop(strategy, course, ins, fs, k + 1, loads, constraints, equipment,
                               best)
         IN  next(candidateAssignment(strategy, course, instructor, loads[instructor.id],
                                      facility, equipment))

\* find<Strategy>OptimalAssignment(course, data, constraints); the
\* compatibility matrix holds the instructor and facility objects of data
findOptimalAssignment(strategy, course, resources, loads, constraints) ==
    findLoop(strategy, course,
             findCompatibleInstructors(course, resources.instructors),
             findCompatibleFacilities(course, resources.facilities),
             1, loads, constraints, resources.equipment, NoAssignment)

\* the comparator of each strategy's sort: TRUE when it returns a negative
\* number for (a, b), so that a is placed before b
perStudentBefore(a, b) ==
    \* (instructor_cost + classroom_cost) / (expected_students || 1), ascending
    LET studentsA == IF a.expected_students # 0 THEN a.expected_students ELSE 1
        studentsB == IF b.expected_students # 0 THEN b.expected_students ELSE 1
    IN  (a.instructor_cost + a.classroom_cost) * studentsB
            < (b.instructor_cost + b.classroom_cost) * studentsA

studentsBefore(a, b) == b.expected_students - a.expected_students < 0

priorityBefore(a, b) ==
    calculateCoursePriority(b) * calculateCourseComplexity(b)
        - calculateCoursePriority(a) * calculateCourseComplexity(a) < 0

\* calculateBalancedScore = priority * complexity / (cost / 1000), descending;
\* a zero cost gives Infinity, and Infinity - Infinity is NaN (no order)
balancedBefore(a, b) ==
    LET studentsA == IF a.expected_students # 0 THEN a.expected_students ELSE 1
        studentsB == IF b.expected_students # 0 THEN b.expected_students ELSE 1
        directA == a.instructor_cost + a.classroom_cost
        directB == b.instructor_cost + b.classroom_cost
        weightA == calculateCoursePriority(a) * calculateCourseComplexity(a) * studentsA
        weightB == calculateCoursePriority(b) * calculateCourseComplexity(b) * studentsB
    IN  IF directA = 0 THEN directB # 0
        ELSE IF directB = 0 THEN FALSE
        ELSE weightB * directA < weightA * directB

\* the default branch of the switch placed on cost minimization
dispatchDefaultingToCost(strategy) ==
    IF strategy \in {UTILIZATION_MAXIMIZATION, QUALITY_FOCUSED, BALANCED}
    THEN strategy ELSE COST_MINIMIZATION

\* the strategy the switch of allocateResources runs
dispatch(strategy) ==
    IF strategy \in {COST_MINIMIZATION, UTILIZATION_MAXIMIZATION, QUALITY_FOCUSED}
    THEN strategy ELSE BALANCED

sortBefore(strategy, a, b) ==
    CASE strategy = COST_MINIMIZATION        -> perStudentBefore(a, b)
      [] strategy = UTILIZATION_MAXIMIZATION -> studentsBefore(a, b)
      [] strategy = QUALITY_FOCUSED          -> priorityBefore(a, b)
      [] OTHER                               -> balancedBefore(a, b)

\* the sort left out: the courses in the order the caller gave them
coursesAsGiven(strategy, courses) == courses

\* data.courses.sort(...) of the strategy
sortCourses(strategy, courses) ==
    LET before == [a \in 1..Len(courses) |-> [b \in 1..Len(courses) |->
                      sortBefore(strategy, courses[a], courses[b])]]
        order  == SortedOrder(<<>>, 1, before)
    IN  [k \in 1..Len(courses) |-> courses[order[k]]]

\* percentage of instructors and of facilities used, averaged
calculateTotalUtilization(assignments, resources) ==
    NMul(NAdd(Ratio(Cardinality(Ids(assignments, "instructorId")), Len(resources.instructors)),
              Ratio(Cardinality(Ids(assignments, "facilityId")), Len(resources.facilities))),
         RInt(50))

RECURSIVE SumCostOrZero(_, _)
SumCostOrZero(assignments, k) ==
    IF k > Len(assignments) THEN 0
    ELSE (IF assignments[k].cost = Undefined THEN 0 ELSE assignments[k].cost)
         + SumCostOrZero(assignments, k + 1)

\* 10 * (qualityScore || 50)
qualityOrDefault(assignment) ==
    IF assignment.qualityScore \in {Undefined, 0} THEN 500 ELSE assignment.qualityScore

RECURSIVE SumQuality(_, _)
SumQuality(assignments, k) ==
    IF k > Len(assignments) THEN 0
    ELSE qualityOrDefault(assignments[k]) + SumQuality(assignments, k + 1)

calculateQualityScore(assignments) ==
    IF Len(assignments) = 0 THEN RInt(0)
    ELSE Rat(SumQuality(assignments, 1), 10 * Len(assignments))

\* in thousandths, as balancedScoreOf
calculateOverallBalanceScore(assignments, resources) ==
    IF Len(assignments) = 0 THEN 0
    ELSE IF costInCents(SumCostOrZero(assignments, 1)) = 0 THEN InfiniteScore
    ELSE RFloor(RMul(calculateQualityScore(assignments), RInt(400)))
         + RFloor(RMul(calculateTotalUtilization(assignments, resources), RInt(300)))
         + ((300000000 * Len(assignments)) \div costInCents(SumCostOrZero(assignments, 1)))

\* the strategy's own figure: totalCost, totalUtilization, qualityScore or balanceScore
strategyMetric(strategy, assignments, resources) ==
    CASE strategy = COST_MINIMIZATION        -> RInt(SumCostOrZero(assignments, 1))
      [] strategy = UTILIZATION_MAXIMIZATION -> calculateTotalUtilization(assignments, resources)
      [] strategy = QUALITY_FOCUSED          -> calculateQualityScore(assignments)
      [] OTHER -> RInt(calculateOverallBalanceScore(assignments, resources))

getCostRange(cost) ==
    IF cost < 5000 * CostScale THEN "Low (< $5,000)"
    ELSE IF cost < 10000 * CostScale THEN "Medium ($5,000 - $10,000)"
    ELSE IF cost < 15000 * CostScale THEN "High ($10,000 - $15,000)"
    ELSE "Very High (> $15,000)"

calculateCostDistribution(assignments) ==
    LET rangeOf(k) == getCostRange(IF assignments[k].cost = Undefined THEN 0 ELSE assignments[k].cost)
        ranges == {rangeOf(k) : k \in 1..Len(assignments)}
    IN  [g \in ranges |-> Cardinality({k \in 1..Len(assignments) : rangeOf(k) = g})]

calculateFinalCostAnalysis(assignments) ==
    LET totalCost == SumCostOrZero(assignments, 1)
    IN  [totalCost |-> totalCost,
         averageCostPerCourse |-> IF Len(assignments) > 0 THEN Rat(totalCost, Len(assignments))
                                  ELSE RInt(0),
         costDistribution |-> calculateCostDistribution(assignments)]

calculateQualityDistribution(assignments) ==
    LET band(k) == LET quality == qualityOrDefault(assignments[k])
                   IN  IF quality >= 800 THEN "excellent"
                       ELSE IF quality >= 700 THEN "good"
                       ELSE IF quality >= 600 THEN "fair"
                       ELSE "poor"
    IN  [g \in {"excellent", "good", "fair", "poor"} |->
            Cardinality({k \in 1..Len(assignments) : band(k) = g})]

\* the recommendation about unassigned courses given for two or more only
generateAllocationRecommendationsOverOne(assignments, courses, resources) ==
    LET unassignedCount == Len(courses) - Len(assignments)
    IN  (IF unassignedCount > 1
         THEN << <<unassignedCount, "courses could not be assigned - consider hiring additional instructors or expanding facilities">> >>
         ELSE <<>>)
        \o (IF NLt(calculateTotalUtilization(assignments, resources), RInt(70))
            THEN << <<0, "Resource utilization is below optimal - consider consolidating or reducing resources">> >>
            ELSE <<>>)

generateAllocationRecommendations(assignments, courses, resources) ==
    LET unassignedCount == Len(courses) - Len(assignments)
    IN  (IF unassignedCount > 0
         THEN << <<unassignedCount, "courses could not be assigned - consider hiring additional instructors or expanding facilities">> >>
         ELSE <<>>)
        \o (IF NLt(calculateTotalUtilization(assignments, resources), RInt(70))
            THEN << <<0, "Resource utilization is below optimal - consider consolidating or reducing resources">> >>
            ELSE <<>>)

\* loads and utilizations are the counters of the objects the run holds
generateAllocationWarnings(resources, loads, utilizations) ==
    LET overloaded == {k \in 1..Len(resources.instructors) :
                          loads[resources.instructors[k].id] > maxInstructorLoad}
        unused     == {k \in 1..Len(resources.facilities) :
                          utilizations[resources.facilities[k].id] = 0}
    IN  (IF Cardinality(overloaded) > 0
         THEN << <<Cardinality(overloaded), "instructors are overloaded">> >> ELSE <<>>)
        \o (IF Cardinality(unused) > 0
            THEN << <<Cardinality(unused), "facilities are not being used">> >> ELSE <<>>)

\* the summary counting every course as unassigned
postProcessAllocationCountingCourses(strategy, allocation, courses, resources, loads, utilizations) ==
    [strategy    |-> strategy,
     assignments |-> allocation.assignments,
     metric      |-> allocation.metric,
     summary     |->
        [totalAssignments    |-> Len(allocation.assignments),
         unassignedCourses   |-> Len(courses),
         resourceUtilization |->
            [instructors |-> calculateTotalUtilization(allocation.assignments, resources),
             facilities  |-> calculateTotalUtilization(allocation.assignments, resources),
             equipment   |-> RInt(0)],
         costAnalysis   |-> calculateFinalCostAnalysis(allocation.assignments),
         qualityMetrics |->
            [averageQualityScore |-> calculateQualityScore(allocation.assignments),
             qualityDistribution |-> calculateQualityDistribution(allocation.assignments)]],
     recommendations |-> generateAllocationRecommendations(allocation.assignments, courses, resources),
     warnings        |-> generateAllocationWarnings(resources, loads, utilizations)]

postProcessAllocation(strategy, allocation, courses, resources, loads, utilizations) ==
    [strategy    |-> strategy,
     assignments |-> allocation.assignments,
     metric      |-> allocation.metric,
     summary     |->
        [totalAssignments    |-> Len(allocation.assignments),
         unassignedCourses   |-> Len(courses) - Len(allocation.assignments),
         resourceUtilization |->
            [instructors |-> calculateTotalUtilization(allocation.assignments, resources),
             facilities  |-> calculateTotalUtilization(allocation.assignments, resources),
             equipment   |-> RInt(0)],
         costAnalysis   |-> calculateFinalCostAnalysis(allocation.assignments),
         qualityMetrics |->
            [averageQualityScore |-> calculateQualityScore(allocation.assignments),
             qualityDistribution |-> calculateQualityDistribution(allocation.assignments)]],
     recommendations |-> generateAllocationRecommendations(allocation.assignments, courses, resources),
     warnings        |-> generateAllocationWarnings(resources, loads, utilizations)]

(***************************************************************************)
(* The objects of a planning run.  heap[0] holds the caller's instructor   *)
(* and facility objects and course array; heap[r] holds the objects run r  *)
(* creates.  A run refers to its data by the owner of the objects.         *)
(***************************************************************************)
Runs   == {1, 2}
Caller == 0
Owners == {Caller} \cup Runs

InstructorIds == {InstructorCatalog[k].id : k \in 1..Len(InstructorCatalog)}
FacilityIds   == {FacilityCatalog[k].id : k \in 1..Len(FacilityCatalog)}

FreshObjects(courses) ==
    [currentLoad        |-> [i \in InstructorIds |-> 0],
     assignedCourses    |-> [i \in InstructorIds |-> <<>>],
     currentUtilization |-> [f \in FacilityIds |-> 0],
     scheduledSlots     |-> [f \in FacilityIds |-> <<>>],
     courses            |-> courses]

\* instructors.map(instructor => ({...instructor, currentLoad: 0, ...})):
\* the owner of the objects the run works on
\* no copy: the run works on the caller's instructor objects
preprocessInstructorsInPlace(r) == Caller

preprocessInstructors(r) == r
\* no copy: the run works on the caller's facility objects
preprocessFacilitiesInPlace(r) == Caller

preprocessFacilities(r)  == r
preprocessCourses(r)     == r

NoData == [instructors |-> Caller, facilities |-> Caller, courses |-> Caller]
NoAllocation == [assignments |-> <<>>, metric |-> RInt(0)]
NoPlan == [strategy |-> "", assignments |-> <<>>, metric |-> RInt(0), summary |-> <<>>,
           recommendations |-> <<>>, warnings |-> <<>>]

RunIdle == [pc |-> "idle", data |-> NoData, index |-> 0, pending |-> NoAssignment,
            allocation |-> NoAllocation, plan |-> NoPlan, error |-> ""]

Strategy(r)    == dispatch(allocIn.args[r].strategy)
Constraints(r) == mergedConstraints(allocIn.args[r].constraints)

\* allocateResources up to the await inside preprocessAllocationData
Start(r) ==
    /\ run[r].pc = "call"
    /\ IF allocationError(allocIn.resources, allocIn.coursesType, allocIn.courses) = ""
       THEN LET data == [instructors |-> preprocessInstructors(r),
                         facilities  |-> preprocessFacilities(r),
                         courses     |-> preprocessCourses(r)]
                fresh == FreshObjects(allocIn.courses)
                h1 == [heap EXCEPT ![data.instructors].currentLoad = fresh.currentLoad,
                                   ![data.instructors].assignedCourses = fresh.assignedCourses]
                h2 == [h1 EXCEPT ![data.facilities].currentUtilization = fresh.currentUtilization,
                                 ![data.facilities].scheduledSlots = fresh.scheduledSlots]
            IN  /\ heap' = [h2 EXCEPT ![data.courses].courses = heap[Caller].courses]
                /\ run' = [run EXCEPT ![r].pc = "preprocess", ![r].data = data]
       ELSE /\ run' = [run EXCEPT ![r].pc = "threw",
                                  ![r].error = allocationError(allocIn.resources,
                                                               allocIn.coursesType,
                                                               allocIn.courses)]
            /\ UNCHANGED heap
    /\ UNCHANGED <<calc, dep, optIn, opt, clock, allocIn>>

\* the rest of preprocessAllocationData: the compatibility matrix, which
\* refers to the instructor and facility objects of the run
BuildCompatibilityMatrix(r) ==
    /\ run[r].pc = "preprocess"
    /\ run' = [run EXCEPT ![r].pc = "dispatch"]
    /\ UNCHANGED <<calc, dep, optIn, opt, clock, allocIn, heap>>

\* the facility booked, the instructor's load left as it was
updateFacilityAvailabilityOnly(h, assignment, data) ==
    [h EXCEPT ![data.facilities].currentUtilization[assignment.facilityId] = @ + 1,
              ![data.facilities].scheduledSlots[assignment.facilityId] =
                   Append(@, assignment.timeSlot)]

\* updateResourceAvailability(assignment, data) on the objects of `data`
updateResourceAvailability(h, assignment, data) ==
    LET h1 == [h EXCEPT ![data.instructors].currentLoad[assignment.instructorId] = @ + 1,
                        ![data.instructors].assignedCourses[assignment.instructorId] =
                             Append(@, assignment.courseId)]
    IN  [h1 EXCEPT ![data.facilities].currentUtilization[assignment.facilityId] = @ + 1,
                   ![data.facilities].scheduledSlots[assignment.facilityId] =
                        Append(@, assignment.timeSlot)]

\* the switch, the sort of the strategy and the call of
\* find<Strategy>OptimalAssignment for the first course, up to its await
BeginStrategy(r) ==
    /\ run[r].pc = "dispatch"
    /\ LET data   == run[r].data
           sorted == sortCourses(Strategy(r), heap[data.courses].courses)
       IN  /\ heap' = [heap EXCEPT ![data.courses].courses = sorted]
           /\ run' = [run EXCEPT ![r].pc = "loop", ![r].index = 1,
                                 ![r].allocation = NoAllocation,
                                 ![r].pending =
                                     findOptimalAssignment(Strategy(r), sorted[1], allocIn.resources,
                                                           heap[data.instructors].currentLoad,
                                                           Constraints(r))]
    /\ UNCHANGED <<calc, dep, optIn, opt, clock, allocIn>>

\* the loop body that stays on a course after committing it, and moves on
\* only when the course gets no assignment
ResumeRepeatingCommitted(r) ==
    /\ run[r].pc = "loop"
    /\ LET data    == run[r].data
           courses == heap[data.courses].courses
           found   == run[r].pending # NoAssignment
           assignments == IF found THEN Append(run[r].allocation.assignments, run[r].pending)
                          ELSE run[r].allocation.assignments
           h == IF found THEN updateResourceAvailability(heap, run[r].pending, data) ELSE heap
           following == IF found THEN run[r].index ELSE run[r].index + 1
       IN  /\ heap' = h
           /\ IF following <= Len(courses)
              THEN run' = [run EXCEPT ![r].index = following,
                                      ![r].allocation.assignments = assignments,
                                      ![r].pending =
                                          findOptimalAssignment(Strategy(r), courses[following],
                                                                allocIn.resources,
                                                                h[data.instructors].currentLoad,
                                                                Constraints(r))]
              ELSE run' = [run EXCEPT ![r].pc = "post", ![r].pending = NoAssignment,
                                      ![r].allocation =
                                          [assignments |-> assignments,
                                           metric |-> strategyMetric(Strategy(r), assignments,
                                                                     allocIn.resources)]]
    /\ UNCHANGED <<calc, dep, optIn, opt, clock, allocIn>>

\* the loop body after the await: commit the assignment found, then either
\* call find<Strategy>OptimalAssignment for the next course or leave the loop
\* and compute the strategy's figure
Resume(r) ==
    /\ run[r].pc = "loop"
    /\ LET data    == run[r].data
           courses == heap[data.courses].courses
           found   == run[r].pending # NoAssignment
           assignments == IF found THEN Append(run[r].allocation.assignments, run[r].pending)
                          ELSE run[r].allocation.assignments
           h == IF found THEN updateResourceAvailability(heap, run[r].pending, data) ELSE heap
       IN  /\ heap' = h
           /\ IF run[r].index < Len(courses)
              THEN run' = [run EXCEPT ![r].index = @ + 1,
                                      ![r].allocation.assignments = assignments,
                                      ![r].pending =
                                          findOptimalAssignment(Strategy(r), courses[run[r].index + 1],
                                                                allocIn.resources,
                                                                h[data.instructors].currentLoad,
                                                                Constraints(r))]
              ELSE run' = [run EXCEPT ![r].pc = "post", ![r].pending = NoAssignment,
                                      ![r].allocation =
                                          [assignments |-> assignments,
                                           metric |-> strategyMetric(Strategy(r), assignments,
                                                                     allocIn.resources)]]
    /\ UNCHANGED <<calc, dep, optIn, opt, clock, allocIn>>

\* postProcessAllocation and the return of the final plan
PostProcess(r) ==
    /\ run[r].pc = "post"
    /\ LET data == run[r].data
       IN  run' = [run EXCEPT ![r].pc = "returned",
                              ![r].plan =
                                  postProcessAllocation(Strategy(r), run[r].allocation,
                                                        heap[data.courses].courses, allocIn.resources,
                                                        heap[data.instructors].currentLoad,
                                                        heap[data.facilities].currentUtilization)]
    /\ UNCHANGED <<calc, dep, optIn, opt, clock, allocIn, heap>>

(***************************************************************************)
(* A run of allocateResources on its own, as one computation.              *)
(***************************************************************************)
RECURSIVE aloneLoop(_, _, _, _, _, _, _)
aloneLoop(strategy, constraints, resources, courses, k, objects, assignments) ==
    IF k > Len(courses)
    THEN postProcessAllocation(strategy,
                               [assignments |-> assignments,
                                metric |-> strategyMetric(strategy, assignments, resources)],
                               courses, resources, objects.currentLoad, objects.currentUtilization)
    ELSE LET a == findOptimalAssignment(strategy, courses[k], resources, objects.currentLoad,
                                        constraints)
         IN  IF a = NoAssignment
             THEN aloneLoop(strategy, constraints, resources, courses, k + 1, objects, assignments)
             ELSE aloneLoop(strategy, constraints, resources, courses, k + 1,
                            [objects EXCEPT !.currentLoad[a.instructorId] = @ + 1,
                                            !.currentUtilization[a.facilityId] = @ + 1],
                            Append(assignments, a))

PlanAlone(strategy, constraints, resources, courses) ==
    aloneLoop(dispatch(strategy), mergedConstraints(constraints), resources,
              sortCourses(dispatch(strategy), courses), 1, FreshObjects(courses), <<>>)

(***************************************************************************)
(* Specifications                                                          *)
(***************************************************************************)
EquipmentLists ==
    { <<>>,
      << [purchase_cost |-> 1000, years_owned |-> Rat(2, 1), depreciation_rate |-> Rat(1, 10),
          maintenance_cost_annual |-> 100] >> }

StrategyNames  == allocationStrategies \cup {"fastest"}
LoadLimits     == {Undefined, 1, 2}

AllocIdleIn ==
    [resources |-> Resources(<<>>, <<>>), courses |-> <<>>, coursesType |-> "array",
     budget |-> [d \in Departments |-> Undefined],
     args |-> [r \in Runs |-> [strategy |-> BALANCED,
                               constraints |-> [maxInstructorLoad |-> Undefined]]]]
HeapIdle == [o \in Owners |-> FreshObjects(<<>>)]

\* one call of calculateDepreciation
SpecDepInit ==
    /\ DepInit
    /\ calc = CalcIdle
    /\ optIn = OptIdleIn /\ opt = OptIdle /\ clock = 0
    /\ allocIn = AllocIdleIn /\ heap = HeapIdle /\ run = [r \in Runs |-> RunIdle]

NextDep == CalculateDepreciation

SpecDep == SpecDepInit /\ [][NextDep]_vars

\* two runs of optimizeAllocation on the same arguments
SpecOptInit ==
    /\ OptInit
    /\ dep = DepIdle /\ calc = CalcIdle
    /\ allocIn = AllocIdleIn /\ heap = HeapIdle /\ run = [r \in Runs |-> RunIdle]

NextOpt == (\E r \in OptRuns : OptimizeAllocation(r)) \/ Tick

SpecOpt == SpecOptInit /\ [][NextOpt]_vars

\* one run of allocateResources
SpecAllocInit ==
    /\ \E ins \in Pick(InstructorCatalog, 1, MaxInstructors),
          fs \in Pick(FacilityCatalog, 1, MaxFacilities),
          cs \in Pick(CourseCatalog, 1, MaxCourses),
          eq \in EquipmentLists,
          st \in StrategyNames,
          limit \in LoadLimits :
          /\ allocIn = [resources |-> [Resources(ins, fs) EXCEPT !.equipment = eq],
                        courses |-> cs, coursesType |-> "array",
                        budget |-> [d \in Departments |-> 10000],
                        args |-> [r \in Runs |-> [strategy |-> st,
                                                  constraints |-> [maxInstructorLoad |-> limit]]]]
          /\ heap = [o \in Owners |-> FreshObjects(IF o = Caller THEN cs ELSE <<>>)]
    /\ run = [r \in Runs |-> IF r = 1 THEN [RunIdle EXCEPT !.pc = "call"] ELSE RunIdle]
    /\ dep = DepIdle /\ calc = CalcIdle /\ optIn = OptIdleIn /\ opt = OptIdle /\ clock = 0

NextAlloc ==
    \E r \in Runs :
        \/ Start(r)
        \/ BuildCompatibilityMatrix(r)
        \/ BeginStrategy(r)
        \/ Resume(r)
        \/ PostProcess(r)

SpecAlloc == SpecAllocInit /\ [][NextAlloc]_vars

(***************************************************************************)
(* Properties                                                              *)
(***************************************************************************)
\* how many assignments name `id` in `field`
Occurrences(assignments, field, id) ==
    Cardinality({k \in 1..Len(assignments) : assignments[k][field] = id})

NoTwice(assignments, field) ==
    \A j, k \in 1..Len(assignments) : j # k => assignments[j][field] # assignments[k][field]

OptCombinations == generateFeasibleCombinations(optIn.resources, optIn.courses)

\* C1: the assignments returned by greedyOptimization name no instructor
\* twice and no facility twice.
C1_NoInstructorOrFacilityTwice ==
    \A r \in OptRuns :
        opt[r].pc = "returned" =>
            /\ NoTwice(opt[r].plan.courseAssignments, "instructorId")
            /\ NoTwice(opt[r].plan.courseAssignments, "facilityId")

\* two assignments were committed and a combination naming an instructor
\* already used was passed over
C1_Witness ==
    /\ opt[1].pc = "returned"
    /\ Len(opt[1].plan.courseAssignments) >= 2
    /\ \E k \in 1..Len(OptCombinations) :
          /\ OptCombinations[k].instructorId \in Ids(opt[1].plan.courseAssignments, "instructorId")
          /\ \A j \in 1..Len(opt[1].plan.courseAssignments) :
                \/ OptCombinations[k].courseId # opt[1].plan.courseAssignments[j].courseId
                \/ OptCombinations[k].instructorId # opt[1].plan.courseAssignments[j].instructorId
                \/ OptCombinations[k].facilityId # opt[1].plan.courseAssignments[j].facilityId

\* C2: the assignments returned by greedyOptimization name no course twice.
C2_NoCourseTwice ==
    \A r \in OptRuns :
        opt[r].pc = "returned" => NoTwice(opt[r].plan.courseAssignments, "courseId")

C4_FacilityAtMostOnce ==
    \A r \in Runs :
        run[r].pc = "returned" => NoTwice(run[r].plan.assignments, "facilityId")

CourseDepartment(courseId) ==
    LET k == CHOOSE k \in 1..Len(CourseCatalog) : CourseCatalog[k].id = courseId
    IN  CourseCatalog[k].department_id

RECURSIVE DepartmentSpend(_, _, _)
DepartmentSpend(assignments, d, k) ==
    IF k > Len(assignments) THEN 0
    ELSE (IF CourseDepartment(assignments[k].courseId) = d /\ assignments[k].cost # Undefined
          THEN assignments[k].cost ELSE 0)
         + DepartmentSpend(assignments, d, k + 1)

\* C5: for every department with a budget, the costs of the assignments
\* returned by optimizeAllocation for the department's courses sum to at most
\* 95% of the department's budget (costs are in tenths).
C5_DepartmentWithinBudget ==
    \A r \in OptRuns :
        opt[r].pc = "returned" =>
            \A d \in Departments :
                optIn.budget[d] # Undefined =>
                    100 * DepartmentSpend(opt[r].plan.courseAssignments, d, 1)
                        <= 10 * optIn.budget[d] * (100 - budgetBufferPercent)

\* C6: under cost minimization the costs committed for a department's courses
\* sum to at most 95% of the department's budget.
C6_CostMinimizationWithinBudget ==
    \A r \in Runs :
        (run[r].pc = "returned" /\ Strategy(r) = COST_MINIMIZATION) =>
            \A d \in Departments :
                DepartmentSpend(run[r].plan.assignments, d, 1)
                    <= allocIn.budget[d] * (100 - budgetBufferPercent) * (CostScale \div 100)

\* C9: calculateDepreciation returns a currentValue of at least 10% of the
\* purchase cost.
C9_ResidualFloor ==
    dep.pc = "returned" =>
        RLe(RMul(RInt(dep.purchaseCost), residualFraction), dep.result.currentValue)

\* the depreciation accumulated exceeds 90% of a positive purchase cost and
\* the value returned is the floor
C9_Witness ==
    /\ dep.pc = "returned"
    /\ dep.purchaseCost > 0
    /\ RLt(RMul(RInt(dep.purchaseCost), maxDepreciationFraction),
           dep.result.accumulatedDepreciation)
    /\ dep.result.currentValue = RMul(RInt(dep.purchaseCost), residualFraction)

\* C10: calculateDepreciation returns an accumulatedDepreciation of at most
\* 90% of the purchase cost.
C10_AccumulatedCapped ==
    dep.pc = "returned" =>
        RLe(dep.result.accumulatedDepreciation,
            RMul(RInt(dep.purchaseCost), maxDepreciationFraction))

(***************************************************************************)
(* Two runs of allocateResources on one allocator instance and the same    *)
(* resource and course objects, interleaved at their await points.         *)
(***************************************************************************)
ConcMaxCourses == 2

Prefixes(catalog, n) == {SubSeq(catalog, 1, k) : k \in 0..n}

ConcLoadLimits == {Undefined, 1}

\* the arguments of a run; the two runs are interchangeable, so that the
\* unordered pairs of arguments cover every pair of calls
ConcArgs == [strategy : allocationStrategies, constraints : [maxInstructorLoad : ConcLoadLimits]]

SpecConcInit ==
    /\ \E ins \in Prefixes(InstructorCatalog, MaxInstructors),
          fs \in Prefixes(FacilityCatalog, MaxFacilities),
          cs \in Pick(CourseCatalog, 1, ConcMaxCourses),
          pair \in {p \in SUBSET ConcArgs : Cardinality(p) \in {1, 2}} :
          /\ allocIn = [resources |-> Resources(ins, fs),
                        courses |-> cs, coursesType |-> "array",
                        budget |-> [d \in Departments |-> 10000],
                        args |-> LET first == CHOOSE x \in pair : TRUE
                                 IN  [r \in Runs |->
                                        IF r = 1 \/ pair = {first} THEN first
                                        ELSE CHOOSE x \in pair : x # first]]
          /\ heap = [o \in Owners |-> FreshObjects(IF o = Caller THEN cs ELSE <<>>)]
    /\ run = [r \in Runs |-> [RunIdle EXCEPT !.pc = "call"]]
    /\ dep = DepIdle /\ calc = CalcIdle /\ optIn = OptIdleIn /\ opt = OptIdle /\ clock = 0

SpecConc == SpecConcInit /\ [][NextAlloc]_vars

(***************************************************************************)
(* Two runs of allocateResources and two runs of optimizeAllocation, each  *)
(* pair on identical arguments.  The two classes share no state; the runs  *)
(* of the optimizer are explored once the allocator's runs have ended.     *)
(***************************************************************************)
Ended(r) == run[r].pc \in {"returned", "threw"}

SpecRunsInit ==
    /\ \E ins \in Prefixes(InstructorCatalog, MaxInstructors),
          fs \in Prefixes(FacilityCatalog, MaxFacilities),
          cs \in Pick(CourseCatalog, 1, ConcMaxCourses),
          st \in allocationStrategies,
          limit \in ConcLoadLimits,
          b \in Budgets :
          /\ allocIn = [resources |-> Resources(ins, fs),
                        courses |-> cs, coursesType |-> "array",
                        budget |-> b,
                        args |-> [r \in Runs |-> [strategy |-> st,
                                                  constraints |-> [maxInstructorLoad |-> limit]]]]
          /\ heap = [o \in Owners |-> FreshObjects(IF o = Caller THEN cs ELSE <<>>)]
          /\ optIn = [resources |-> Resources(ins, fs), courses |-> cs, coursesType |-> "array",
                      budget |-> b]
    /\ run = [r \in Runs |-> [RunIdle EXCEPT !.pc = "call"]]
    /\ opt = [r \in OptRuns |-> [pc |-> "call", plan |-> EmptyPlan, error |-> ""]]
    /\ clock = 0
    /\ dep = DepIdle /\ calc = CalcIdle

NextRuns ==
    \/ NextAlloc
    \/ ((\A r \in Runs : Ended(r)) /\ NextOpt)

SpecRuns == SpecRunsInit /\ [][NextRuns]_vars

\* C7: two interleaved runs on one allocator share no mutable state: the
\* caller's objects stay as they were passed in, the counters of a run's
\* objects count that run's own commitments, and a run that returns returns
\* the plan it returns when run alone.
C7_RunsIsolated ==
    /\ heap[Caller] = FreshObjects(allocIn.courses)
    /\ \A r \in Runs :
          run[r].pc \in {"preprocess", "dispatch", "loop", "post", "returned"} =>
              /\ run[r].data = [instructors |-> r, facilities |-> r, courses |-> r]
              /\ \A i \in InstructorIds :
                    heap[r].currentLoad[i]
                        = Occurrences(run[r].allocation.assignments, "instructorId", i)
              /\ \A f \in FacilityIds :
                    heap[r].currentUtilization[f]
                        = Occurrences(run[r].allocation.assignments, "facilityId", f)
    /\ \A r \in Runs :
          run[r].pc = "returned" =>
              run[r].plan = PlanAlone(allocIn.args[r].strategy, allocIn.args[r].constraints,
                                      allocIn.resources, allocIn.courses)

\* both runs are inside their loops under different strategies, each has
\* committed a course, and the two commitments name the same instructor
C7_Witness ==
    /\ run[1].pc = "loop" /\ run[2].pc = "loop"
    /\ Strategy(1) # Strategy(2)
    /\ Len(run[1].allocation.assignments) > 0
    /\ Len(run[2].allocation.assignments) > 0
    /\ run[1].allocation.assignments[1].instructorId
          = run[2].allocation.assignments[1].instructorId

WithoutTimestamps(plan) ==
    [plan EXCEPT !.courseAssignments =
        [k \in 1..Len(plan.courseAssignments) |->
            [plan.courseAssignments[k] EXCEPT !.assignedAt = 0]]]

\* C8 as stated: two runs on identical arguments return identical plans, for
\* allocateResources and for optimizeAllocation.
C8_IdenticalPlans ==
    /\ (run[1].pc = "returned" /\ run[2].pc = "returned") => run[1].plan = run[2].plan
    /\ (opt[1].pc = "returned" /\ opt[2].pc = "returned") => opt[1].plan = opt[2].plan

\* C8 as amended: two runs on identical arguments return identical plans,
\* except that the assignments returned by optimizeAllocation carry the time
\* of their own run in assignedAt.
C8_IdenticalPlansButTimestamps ==
    /\ (run[1].pc = "returned" /\ run[2].pc = "returned") => run[1].plan = run[2].plan
    /\ (opt[1].pc = "returned" /\ opt[2].pc = "returned") =>
          WithoutTimestamps(opt[1].plan) = WithoutTimestamps(opt[2].plan)

\* the four runs have returned plans with assignments, and the optimizer's
\* two runs ran at different times
C8_Witness ==
    /\ run[1].pc = "returned" /\ run[2].pc = "returned"
    /\ Len(run[1].plan.assignments) > 1
    /\ opt[1].pc = "returned" /\ opt[2].pc = "returned"
    /\ Len(opt[1].plan.courseAssignments) > 0
    /\ opt[1].plan.courseAssignments[1].assignedAt # opt[2].plan.courseAssignments[1].assignedAt

(***************************************************************************)
(* One call of CostCalculator.calculateComprehensiveCost.                  *)
(***************************************************************************)
\* the cost structures of a department that defines every cost type
AllCostStructures ==
    [instructor_differential |-> TRUE, facility_overhead |-> TRUE,
     administrativePct |-> 10, generalPct |-> 5]

\* the courses of the catalog, and each of them with no student expected
CostCourses ==
    {CourseCatalog[k] : k \in 1..Len(CourseCatalog)}
        \cup {[CourseCatalog[k] EXCEPT !.expected_students = 0] : k \in 1..Len(CourseCatalog)}

SpecCostInit ==
    /\ \E course \in CostCourses,
          i \in 1..Len(InstructorCatalog),
          f \in 1..Len(FacilityCatalog),
          equipment \in EquipmentLists,
          costStructures \in {NoCostStructures, AllCostStructures} :
          calc = [pc |-> "call", course |-> course, instructor |-> InstructorCatalog[i],
                  facility |-> FacilityCatalog[f], equipment |-> equipment,
                  costStructures |-> costStructures, result |-> Undefined]
    /\ dep = DepIdle /\ optIn = OptIdleIn /\ opt = OptIdle /\ clock = 0
    /\ allocIn = AllocIdleIn /\ heap = HeapIdle /\ run = [r \in Runs |-> RunIdle]

CalculateComprehensiveCost ==
    /\ calc.pc = "call"
    /\ calc' = [calc EXCEPT !.pc = "returned",
                            !.result = calculateComprehensiveCost(calc.course, calc.instructor,
                                                                  calc.facility, calc.equipment,
                                                                  calc.costStructures)]
    /\ UNCHANGED <<dep, optIn, opt, clock, allocIn, heap, run>>

NextCost == CalculateComprehensiveCost

SpecCost == SpecCostInit /\ [][NextCost]_vars

\* C11: for a course with no student expected, calculateComprehensiveCost
\* returns costPerStudent = 0 and costPerCreditHour = 0.
C11_ZeroStudentsZeroUnitCosts ==
    (calc.pc = "returned" /\ calc.course.expected_students = 0) =>
        /\ calc.result.costPerStudent = RInt(0)
        /\ calc.result.costPerCreditHour = RInt(0)

\* the course expects more students than any facility of the list holds
TooLargeForEveryFacility(course, facilities) ==
    \A k \in 1..Len(facilities) : facilities[k].capacity < course.expected_students

\* the courses of the list that no assignment names
UnassignedCourses(courses, assignments) ==
    {k \in 1..Len(courses) : courses[k].id \notin Ids(assignments, "courseId")}

\* C12: a course that expects more students than every facility holds is in
\* no assignment returned by allocateResources or by optimizeAllocation, and
\* summary.unassignedCourses of allocateResources counts the courses that no
\* assignment names, that course among them.
C12_OversizedCourseUnassigned ==
    /\ \A r \in Runs : run[r].pc = "returned" =>
          /\ \A k \in 1..Len(allocIn.courses) :
                TooLargeForEveryFacility(allocIn.courses[k], allocIn.resources.facilities)
                    => k \in UnassignedCourses(allocIn.courses, run[r].plan.assignments)
          /\ run[r].plan.summary.unassignedCourses
                = Cardinality(UnassignedCourses(allocIn.courses, run[r].plan.assignments))
    /\ \A r \in OptRuns : opt[r].pc = "returned" =>
          \A k \in 1..Len(optIn.courses) :
              TooLargeForEveryFacility(optIn.courses[k], optIn.resources.facilities)
                  => k \in UnassignedCourses(optIn.courses, opt[r].plan.courseAssignments)

\* both classes have returned a plan that assigns one course and leaves out
\* another, which no facility of a non-empty list can hold
C12_Witness ==
    /\ run[1].pc = "returned" /\ opt[1].pc = "returned"
    /\ Len(allocIn.resources.facilities) > 0
    /\ Len(run[1].plan.assignments) > 0
    /\ Len(opt[1].plan.courseAssignments) > 0
    /\ \E k \in 1..Len(allocIn.courses) :
          /\ TooLargeForEveryFacility(allocIn.courses[k], allocIn.resources.facilities)
          /\ run[1].plan.summary.unassignedCourses > 0

(***************************************************************************)
(* One run of allocateResources and one of optimizeAllocation on arguments *)
(* that may fail validation.                                               *)
(***************************************************************************)
\* courses with and without their required fields
ValidationCourses ==
    << CourseCatalog[1],
       [CourseCatalog[1] EXCEPT !.id = 0],
       [CourseCatalog[2] EXCEPT !.department_id = 0],
       CourseCatalog[4] >>

ValidationMaxCourses == 2

SpecValidInit ==
    /\ \E hasInstructors \in BOOLEAN, hasFacilities \in BOOLEAN,
          ins \in Prefixes(InstructorCatalog, 1),
          fs \in Prefixes(FacilityCatalog, 1),
          type \in ArgumentTypes,
          cs \in Pick(ValidationCourses, 1, ValidationMaxCourses) :
          LET resources == [hasInstructors |-> hasInstructors, hasFacilities |-> hasFacilities,
                            instructors |-> IF hasInstructors THEN ins ELSE <<>>,
                            facilities |-> IF hasFacilities THEN fs ELSE <<>>,
                            equipment |-> <<>>]
              courses == IF type = "array" THEN cs ELSE <<>>
              budget == [d \in Departments |-> 10000]
          IN  /\ allocIn = [resources |-> resources, courses |-> courses, coursesType |-> type,
                            budget |-> budget,
                            args |-> [r \in Runs |->
                                        [strategy |-> COST_MINIMIZATION,
                                         constraints |-> [maxInstructorLoad |-> Undefined]]]]
              /\ optIn = [resources |-> resources, courses |-> courses, coursesType |-> type,
                          budget |-> budget]
              /\ heap = [o \in Owners |-> FreshObjects(IF o = Caller THEN courses ELSE <<>>)]
    /\ run = [r \in Runs |-> IF r = 1 THEN [RunIdle EXCEPT !.pc = "call"] ELSE RunIdle]
    /\ opt = [r \in OptRuns |-> [pc |-> IF r = 1 THEN "call" ELSE "idle",
                                  plan |-> EmptyPlan, error |-> ""]]
    /\ clock = 0 /\ dep = DepIdle /\ calc = CalcIdle

NextValid == NextAlloc \/ (\E r \in OptRuns : OptimizeAllocation(r))

SpecValid == SpecValidInit /\ [][NextValid]_vars

\* the arguments the claim names: no course list, a course without its id or
\* department id, resources without their instructor or facility list
InvalidArguments(resources, coursesType, courses) ==
    \/ coursesType # "array"
    \/ Len(courses) = 0
    \/ \E k \in 1..Len(courses) : courses[k].id = 0 \/ courses[k].department_id = 0
    \/ ~resources.hasInstructors
    \/ ~resources.hasFacilities

\* C14: on such arguments allocateResources and optimizeAllocation throw a
\* validation error, with no candidate generated and no allocation state
\* changed.
C14_ValidationErrors ==
    /\ InvalidArguments(allocIn.resources, allocIn.coursesType, allocIn.courses) =>
          \A r \in Runs :
              /\ run[r].pc \in {"idle", "call", "threw"}
              /\ run[r].pc = "threw" =>
                    /\ run[r].error \notin {"", TypeError}
                    /\ run[r].allocation = NoAllocation
                    /\ heap[r] = FreshObjects(<<>>)
    /\ InvalidArguments(optIn.resources, optIn.coursesType, optIn.courses) =>
          \A r \in OptRuns :
              /\ opt[r].pc \in {"idle", "call", "threw"}
              /\ opt[r].pc = "threw" =>
                    /\ opt[r].error \notin {"", TypeError}
                    /\ opt[r].plan = EmptyPlan

\* the course has no compatible instructor or no compatible facility
NoCompatibleResource(course, resources) ==
    \/ Len(findCompatibleInstructors(course, resources.instructors)) = 0
    \/ Len(findCompatibleFacilities(course, resources.facilities)) = 0

\* the numbers of unassigned courses that the plan's recommendations name
UnassignedReported(plan) ==
    {plan.recommendations[j][1] : j \in {i \in 1..Len(plan.recommendations) :
        plan.recommendations[i][2] = "courses could not be assigned - consider hiring additional instructors or expanding facilities"}}

\* C13: on valid arguments allocateResources throws no error; it visits
\* every course, leaves a course with no compatible instructor or facility
\* out of the assignments, and recommends on the number of unassigned
\* courses exactly when there is one.
C13_UnassignableCourseReported ==
    \A r \in Runs :
        /\ allocationError(allocIn.resources, allocIn.coursesType, allocIn.courses) = ""
              => run[r].pc # "threw"
        /\ run[r].pc = "returned" =>
              LET unassigned == UnassignedCourses(allocIn.courses, run[r].plan.assignments)
              IN  /\ run[r].index = Len(allocIn.courses)
                  /\ \A k \in 1..Len(allocIn.courses) :
                        NoCompatibleResource(allocIn.courses[k], allocIn.resources)
                            => k \in unassigned
                  /\ Len(run[r].plan.assignments) + Cardinality(unassigned) = Len(allocIn.courses)
                  /\ UnassignedReported(run[r].plan) =
                        IF Cardinality(unassigned) > 0 THEN {Cardinality(unassigned)} ELSE {}

\* the run returned a plan in which the first course it visited has no
\* compatible instructor or facility, a later one is assigned, and the
\* recommendation names one unassigned course
C13_Witness ==
    /\ run[1].pc = "returned"
    /\ Len(allocIn.courses) > 1
    /\ NoCompatibleResource(heap[run[1].data.courses].courses[1], allocIn.resources)
    /\ Len(run[1].plan.assignments) > 0
    /\ UnassignedReported(run[1].plan) = {1}

(***************************************************************************)
(* CostCalculator.generateScenarioAnalysis.  A scenario is an object of    *)
(* JavaScript values; a value is a number (a rational, NaN or Infinity), a *)
(* string or null.                                                         *)
(***************************************************************************)
Number(x)  == [type |-> "number", num |-> x, str |-> ""]
String(t)  == [type |-> "string", num |-> RInt(0), str |-> t]
Null       == [type |-> "null", num |-> RInt(0), str |-> ""]

\* JSON.parse(JSON.stringify(value)): JSON has no NaN and no Infinity, and
\* stringify writes null for them
jsonCopy(value) ==
    IF value.type = "number" /\ value.num[2] = 0 THEN Null ELSE value

\* scenario[key] && typeof scenario[key] === 'number'
truthyNumber(value) == value.type = "number" /\ value.num[1] # 0

applyScenarioVariation(baseScenario, variation) ==
    [key \in DOMAIN baseScenario |->
        IF key \in DOMAIN variation /\ truthyNumber(jsonCopy(baseScenario[key]))
        THEN Number(RMul(baseScenario[key].num, RAdd(RInt(1), variation[key])))
        ELSE jsonCopy(baseScenario[key])]

\* totalCost is a finite number in every scenario of the model
compareScenarios(scenarios) ==
    LET baseTotal == scenarios.base["totalCost"].num
    IN  [name \in {"optimistic", "pessimistic", "realistic"} |->
            LET total == scenarios[name]["totalCost"].num
            IN  [totalCost  |-> total,
                 difference |-> RSub(total, baseTotal),
                 percentDifference |->
                     IF baseTotal[1] = 0
                     THEN (IF RSub(total, baseTotal)[1] = 0 THEN RNaN ELSE Infinity)
                     ELSE RMul(Rat(RSub(total, baseTotal)[1] * baseTotal[2],
                                   RSub(total, baseTotal)[2] * baseTotal[1]), RInt(100))]]

\* the savings are written with toFixed(2): the message carries the cents
generateScenarioRecommendations(scenarios) ==
    LET optimisticSavings   == RSub(scenarios.base["totalCost"].num,
                                    scenarios.optimistic["totalCost"].num)
        pessimisticIncrease == RSub(scenarios.pessimistic["totalCost"].num,
                                    scenarios.base["totalCost"].num)
    IN  (IF RLt(RInt(0), optimisticSavings)
         THEN << <<"Potential savings in optimistic scenario",
                   RFloor(RAdd(RMul(optimisticSavings, RInt(100)), Rat(1, 2)))>> >>
         ELSE <<>>)
        \o (IF RLt(RMul(scenarios.base["totalCost"].num, Rat(2, 10)), pessimisticIncrease)
            THEN << <<"High risk scenario shows >20% cost increase - consider risk mitigation", 0>> >>
            ELSE <<>>)

generateScenarioAnalysis(baseScenario, variations) ==
    LET analysis(scenarios) ==
            [scenarios |-> scenarios,
             comparison |-> compareScenarios(scenarios),
             recommendations |-> generateScenarioRecommendations(scenarios)]
    IN  analysis([base        |-> baseScenario,
                  optimistic  |-> applyScenarioVariation(baseScenario, variations.optimistic),
                  pessimistic |-> applyScenarioVariation(baseScenario, variations.pessimistic),
                  realistic   |-> applyScenarioVariation(baseScenario, variations.realistic)])

ScenarioKeys == {"totalCost", "instructorCosts", "costPerCreditHour", "name"}

\* base scenarios: totals of course costs, a unit cost that is Infinity or
\* NaN when it was a division by zero students, and a label
BaseScenarios ==
    {[key \in ScenarioKeys |->
         CASE key = "totalCost"         -> Number(RInt(total))
           [] key = "instructorCosts"   -> Number(RInt(instructorCosts))
           [] key = "costPerCreditHour" -> Number(unit)
           [] OTHER                     -> String("Fall term")] :
        total \in {0, 1000, 5000}, instructorCosts \in {0, 600},
        unit \in {RInt(250), Infinity, RNaN}}

ZeroVariation == [key \in ScenarioKeys |-> RInt(0)]

Variations ==
    {ZeroVariation,
     [key \in {"totalCost", "instructorCosts"} |-> Rat(-1, 10)],
     [key \in {"totalCost"} |-> Rat(3, 10)],
     [key \in {"instructorCosts", "costPerCreditHour"} |-> Rat(1, 20)]}

SpecScenarioInit ==
    /\ \E baseScenario \in BaseScenarios,
          variations \in [optimistic : Variations, pessimistic : Variations,
                          realistic : Variations] :
          calc = [pc |-> "call", base |-> baseScenario, variations |-> variations,
                  result |-> Undefined]
    /\ dep = DepIdle /\ optIn = OptIdleIn /\ opt = OptIdle /\ clock = 0
    /\ allocIn = AllocIdleIn /\ heap = HeapIdle /\ run = [r \in Runs |-> RunIdle]

GenerateScenarioAnalysis ==
    /\ calc.pc = "call"
    /\ calc' = [calc EXCEPT !.pc = "returned",
                            !.result = generateScenarioAnalysis(calc.base, calc.variations)]
    /\ UNCHANGED <<dep, optIn, opt, clock, allocIn, heap, run>>

NextScenario == GenerateScenarioAnalysis

SpecScenario == SpecScenarioInit /\ [][NextScenario]_vars

\* C15: with a variation factor of 0 on every field, the optimistic, the
\* pessimistic and the realistic scenario of generateScenarioAnalysis are each
\* identical to the base scenario, and the base scenario is returned unchanged.
C15_ZeroVariationIdentity ==
    (/\ calc.pc = "returned"
     /\ \A name \in {"optimistic", "pessimistic", "realistic"} :
            calc.variations[name] = ZeroVariation) =>
        /\ calc.result.scenarios.base = calc.base
        /\ \A name \in {"optimistic", "pessimistic", "realistic"} :
               calc.result.scenarios[name] = calc.base

\* C16: for the straight-line method calculateDepreciation returns
\* annualDepreciation = purchaseCost x rate, accumulatedDepreciation = the
\* smaller of annual x yearsOwned and 0.9 x purchaseCost, and currentValue =
\* purchaseCost - accumulatedDepreciation; for 10000, 0.10 and 3 years that is
\* 1000, 3000 and 7000.
C16_StraightLine ==
    (dep.pc = "returned" /\ dep.method = STRAIGHT_LINE) =>
        LET annual == Rat(dep.purchaseCost * dep.rate[1], dep.rate[2])
            linear == RMul(annual, dep.yearsOwned)
            cap    == Rat(9 * dep.purchaseCost, 10)
        IN  /\ dep.result.annualDepreciation = annual
            /\ dep.result.accumulatedDepreciation = (IF RLe(linear, cap) THEN linear ELSE cap)
            /\ dep.result.currentValue =
                   RSub(RInt(dep.purchaseCost), dep.result.accumulatedDepreciation)
            /\ (dep.purchaseCost = 10000 /\ dep.rate = Rat(1, 10) /\ dep.yearsOwned = RInt(3)) =>
                   /\ dep.result.annualDepreciation = RInt(1000)
                   /\ dep.result.accumulatedDepreciation = RInt(3000)
                   /\ dep.result.currentValue = RInt(7000)

\* a straight-line call whose linear depreciation passed the 90% cap
C16_Witness ==
    /\ dep.pc = "returned" /\ dep.method = STRAIGHT_LINE
    /\ dep.purchaseCost = 10000 /\ dep.rate = Rat(1, 4) /\ dep.yearsOwned = RInt(4)
    /\ dep.result.accumulatedDepreciation = RInt(9000)
    /\ dep.result.currentValue = RInt(1000)

(***************************************************************************)
(* CostCalculator.generateVarianceAnalysis.  Amounts are whole numbers;    *)
(* the categories are the keys of the budget other than total, in order.   *)
(***************************************************************************)
Categories == <<"revenue", "expenses">>
CategorySet == {Categories[k] : k \in 1..Len(Categories)}

NegativeInfinity == <<-1, 0>>

\* a / b of two numbers: NaN for 0 / 0, plus or minus Infinity for x / 0
Divide(a, b) ==
    IF b # 0 THEN Rat(a, b)
    ELSE IF a = 0 THEN RNaN
    ELSE IF a > 0 THEN Infinity ELSE NegativeInfinity

\* x * 100 of a quotient
TimesHundred(x) == IF x[2] = 0 THEN x ELSE RMul(x, RInt(100))

totalVariancePercent(budgeted, actual) ==
    TimesHundred(Divide(actual.total - budgeted.total, budgeted.total))

categoryVariancePercent(budgeted, actual, category) ==
    IF budgeted[category] # 0
    THEN TimesHundred(Divide(actual[category] - budgeted[category], budgeted[category]))
    ELSE RInt(0)

generateVarianceAnalysis(budgeted, actual, period) ==
    LET categoryVariance(category) == actual[category] - budgeted[category]
        significant(category) ==
            LET percent == categoryVariancePercent(budgeted, actual, category)
            IN  percent[2] # 0 /\ (RLt(RInt(10), percent) \/ RLt(percent, RInt(-10)))
        favorable(category)   == categoryVariance(category) < 0
        unfavorable(category) == categoryVariance(category) > 0
    IN  [period               |-> period,
         totalVariance        |-> actual.total - budgeted.total,
         totalVariancePercent |-> totalVariancePercent(budgeted, actual),
         categoryVariances    |->
             [category \in CategorySet |->
                 [budgeted |-> budgeted[category],
                  actual   |-> actual[category],
                  variance |-> categoryVariance(category),
                  variancePercent |-> categoryVariancePercent(budgeted, actual, category)]],
         analysis |->
             [favorableVariances   |-> SelectSeq(Categories, favorable),
              unfavorableVariances |-> SelectSeq(Categories, unfavorable),
              significantVariances |-> SelectSeq(Categories, significant)]]

BudgetedAmounts == {0, 100, 200}
ActualAmounts   == {0, 90, 100, 250}

SpecVarianceInit ==
    /\ \E budgeted \in [total : BudgetedAmounts, revenue : BudgetedAmounts,
                        expenses : BudgetedAmounts],
          actual \in [total : ActualAmounts, revenue : ActualAmounts,
                      expenses : ActualAmounts] :
          calc = [pc |-> "call", budgeted |-> budgeted, actual |-> actual,
                  period |-> "monthly", result |-> Undefined]
    /\ dep = DepIdle /\ optIn = OptIdleIn /\ opt = OptIdle /\ clock = 0
    /\ allocIn = AllocIdleIn /\ heap = HeapIdle /\ run = [r \in Runs |-> RunIdle]

GenerateVarianceAnalysis ==
    /\ calc.pc = "call"
    /\ calc' = [calc EXCEPT !.pc = "returned",
                            !.result = generateVarianceAnalysis(calc.budgeted, calc.actual,
                                                                calc.period)]
    /\ UNCHANGED <<dep, optIn, opt, clock, allocIn, heap, run>>

NextVariance == GenerateVarianceAnalysis

SpecVariance == SpecVarianceInit /\ [][NextVariance]_vars

\* C17: in the result of generateVarianceAnalysis a category budgeted at 0
\* has variancePercent 0 and a budgeted total of 0 gives totalVariancePercent
\* 0, never NaN or an infinity.
C17_ZeroBudgetZeroPercent ==
    calc.pc = "returned" =>
        /\ \A category \in CategorySet :
               calc.budgeted[category] = 0 =>
                   calc.result.categoryVariances[category].variancePercent = RInt(0)
        /\ calc.budgeted.total = 0 => calc.result.totalVariancePercent = RInt(0)

\* max(0, 100 - 10k) for the k warnings of a plan
ConstraintTerm(plan) ==
    IF 100 - 10 * Len(plan.warnings) > 0 THEN 100 - 10 * Len(plan.warnings) ELSE 0

\* C18: the optimizationScore of a plan returned by optimizeAllocation with k
\* warnings is the rounded sum of 40% of the overall efficiency, 30% of the
\* cost efficiency and 30% of the constraint score max(0, 100 - 10k).
C18_ScoreCountsWarnings ==
    \A r \in OptRuns :
        opt[r].pc = "returned" =>
            opt[r].plan.optimizationScore =
                NRound(NAdd(NAdd(NMul(opt[r].plan.resourceUtilization.overall.efficiency,
                                      Rat(4, 10)),
                                 RMul(RInt(calculateCostEfficiency(opt[r].plan.costBreakdown)),
                                      Rat(3, 10))),
                            RMul(RInt(ConstraintTerm(opt[r].plan)), Rat(3, 10))))

\* C19: the optimizationScore of every plan returned by optimizeAllocation
\* is a number from 0 to 100, also when the instructor list or the facility
\* list is empty.
C19_ScoreInRange ==
    \A r \in OptRuns :
        opt[r].pc = "returned" =>
            /\ ~IsNaN(opt[r].plan.optimizationScore)
            /\ RLe(RInt(0), opt[r].plan.optimizationScore)
            /\ RLe(opt[r].plan.optimizationScore, RInt(100))

\* the instructor of the list with this id
InstructorById(instructors, id) ==
    CHOOSE i \in {instructors[k] : k \in 1..Len(instructors)} : i.id = id

\* C20: every assignment of a plan returned by allocateResources or by
\* optimizeAllocation names an instructor whose status is ACTIVE.
C20_OnlyActiveInstructors ==
    /\ \A r \in Runs : run[r].pc = "returned" =>
          \A k \in 1..Len(run[r].plan.assignments) :
              InstructorById(allocIn.resources.instructors,
                             run[r].plan.assignments[k].instructorId).status = "ACTIVE"
    /\ \A r \in OptRuns : opt[r].pc = "returned" =>
          \A k \in 1..Len(opt[r].plan.courseAssignments) :
              InstructorById(optIn.resources.instructors,
                             opt[r].plan.courseAssignments[k].instructorId).status = "ACTIVE"

\* the element of the list with this id
ById(list, id) == CHOOSE x \in {list[k] : k \in 1..Len(list)} : x.id = id

\* the comprehensive total cost of the (course, instructor, facility) triple
\* an assignment of a run of allocateResources names
TripleCost(assignment) ==
    calculateComprehensiveCost(ById(allocIn.courses, assignment.courseId),
                               ById(allocIn.resources.instructors, assignment.instructorId),
                               ById(allocIn.resources.facilities, assignment.facilityId),
                               allocIn.resources.equipment, NoCostStructures).totalCost

RECURSIVE SumTripleCosts(_, _)
SumTripleCosts(assignments, k) ==
    IF k > Len(assignments) THEN 0
    ELSE TripleCost(assignments[k]) + SumTripleCosts(assignments, k + 1)

\* C21: in a plan returned by allocateResources every assignment carries the
\* comprehensive cost of its triple, the total of the cost analysis is the sum
\* of these costs, and averageCostPerCourse is that total divided by the
\* number of assignments (0 when there is none).
C21_CostAnalysisSumsTripleCosts ==
    \A r \in Runs :
        run[r].pc = "returned" =>
            LET assignments == run[r].plan.assignments
                total == SumTripleCosts(assignments, 1)
            IN  /\ \A k \in 1..Len(assignments) :
                       assignments[k].cost = TripleCost(assignments[k])
                /\ run[r].plan.summary.costAnalysis.totalCost = total
                /\ run[r].plan.summary.costAnalysis.averageCostPerCourse =
                       (IF Len(assignments) > 0 THEN Rat(total, Len(assignments)) ELSE RInt(0))

\* the steps a run of allocateResources has left at most: the steps before
\* the loop, one per course not yet processed, postProcessAllocation
StepsLeft(r) ==
    CASE run[r].pc = "call"       -> Len(allocIn.courses) + 5
      [] run[r].pc = "preprocess" -> Len(allocIn.courses) + 4
      [] run[r].pc = "dispatch"   -> Len(allocIn.courses) + 3
      [] run[r].pc = "loop"       -> Len(allocIn.courses) - run[r].index + 2
      [] run[r].pc = "post"       -> 1
      [] OTHER                    -> 0

\* C22: every run of allocateResources on valid input terminates with each
\* course processed exactly once.  Every step of a run lowers the number of
\* steps it has left, which is never negative, and a run that has not ended
\* is at a step that needs nothing but its turn (the loop has a course to
\* process); the loop moves from a course to the next one and never back;
\* and in the returned plan the number of assignments plus
\* summary.unassignedCourses is the number of courses, no course twice.
C22_EveryCourseProcessedOnce ==
    /\ [][\A r \in Runs :
              run'[r] # run[r] =>
                  /\ StepsLeft(r)' < StepsLeft(r)
                  /\ run[r].pc = "loop" =>
                         \/ run'[r].pc = "loop" /\ run'[r].index = run[r].index + 1
                         \/ run'[r].pc = "post" /\ run[r].index = Len(allocIn.courses)]_vars
    /\ [](\A r \in Runs :
              /\ StepsLeft(r) >= 0
              /\ run[r].pc \in {"idle", "call", "preprocess", "dispatch", "loop", "post",
                                "returned", "threw"}
              /\ run[r].pc = "threw" =>
                     allocationError(allocIn.resources, allocIn.coursesType, allocIn.courses) # ""
              /\ run[r].pc \in {"dispatch", "loop"} =>
                     Len(heap[run[r].data.courses].courses) = Len(allocIn.courses)
              /\ run[r].pc = "loop" => run[r].index \in 1..Len(allocIn.courses)
              /\ run[r].pc = "returned" =>
                     /\ Len(run[r].plan.assignments) + run[r].plan.summary.unassignedCourses
                            = Len(allocIn.courses)
                     /\ NoTwice(run[r].plan.assignments, "courseId")
                     /\ Ids(run[r].plan.assignments, "courseId")
                            \subseteq {allocIn.courses[k].id : k \in 1..Len(allocIn.courses)})

\* a run has returned a plan that assigns one course and skipped another
C22_Witness ==
    /\ run[1].pc = "returned"
    /\ Len(allocIn.courses) >= 2
    /\ Len(run[1].plan.assignments) >= 1
    /\ run[1].plan.summary.unassignedCourses >= 1

\* the overhead percentage of a facility type: LAB 20, AUDITORIUM 15, else 10
TypeOverheadPercent(type) ==
    CASE type = "LAB" -> 20 [] type = "AUDITORIUM" -> 15 [] OTHER -> 10

\* C23: the facility overhead in a comprehensive cost is baseRental times the
\* rate of the facility's type (LAB 20%, AUDITORIUM 15%, any other type 10%),
\* also when no cost structures are passed, as the allocator calls it.
C23_OverheadKeyedByFacilityType ==
    calc.pc = "returned" =>
        100 * calc.result.facilityCosts.overhead
            = calc.result.facilityCosts.baseRental * TypeOverheadPercent(calc.facility.type)

(***************************************************************************)
(* One run of the cost-minimization strategy on courses some of which have *)
(* no instructor cost, so that instructors tie on the comprehensive cost.  *)
(***************************************************************************)
\* a course list with the instructor cost of some of its courses left out
\* (course.instructor_cost || 0)
WithoutInstructorCost(courses, free) ==
    [k \in 1..Len(courses) |->
        IF k \in free THEN [courses[k] EXCEPT !.instructor_cost = 0] ELSE courses[k]]

CheapestCourseLists ==
    UNION {{WithoutInstructorCost(cs, free) : free \in SUBSET (1..Len(cs))} :
              cs \in Pick(CourseCatalog, 1, ConcMaxCourses)}

SpecCheapestInit ==
    /\ \E ins \in Pick(InstructorCatalog, 1, MaxInstructors),
          fs \in Pick(FacilityCatalog, 1, MaxFacilities),
          cs \in CheapestCourseLists,
          limit \in ConcLoadLimits :
          /\ allocIn = [resources |-> Resources(ins, fs),
                        courses |-> cs, coursesType |-> "array",
                        budget |-> [d \in Departments |-> 10000],
                        args |-> [r \in Runs |-> [strategy |-> COST_MINIMIZATION,
                                                  constraints |-> [maxInstructorLoad |-> limit]]]]
          /\ heap = [o \in Owners |-> FreshObjects(IF o = Caller THEN cs ELSE <<>>)]
    /\ run = [r \in Runs |-> IF r = 1 THEN [RunIdle EXCEPT !.pc = "call"] ELSE RunIdle]
    /\ dep = DepIdle /\ calc = CalcIdle /\ optIn = OptIdleIn /\ opt = OptIdle /\ clock = 0

SpecCheapest == SpecCheapestInit /\ [][NextAlloc]_vars

\* the course a run of allocateResources is at in its loop
CourseAtTurn(r) == heap[run[r].data.courses].courses[run[r].index]

\* the (instructor, facility) pairs that are compatible with the course at
\* the run's turn and pass checkAssignmentConstraints on the loads the run's
\* instructor objects had when the course was processed, each with its place
\* in generation order (instructors outside, facilities inside)
PassingPairs(r) ==
    LET course == CourseAtTurn(r)
        ins == findCompatibleInstructors(course, allocIn.resources.instructors)
        fs  == findCompatibleFacilities(course, allocIn.resources.facilities)
        loads == heap[run[r].data.instructors].currentLoad
    IN  {[instructor |-> ins[i], facility |-> fs[f], place |-> (i - 1) * Len(fs) + f] :
            <<i, f>> \in {p \in (1..Len(ins)) \X (1..Len(fs)) :
                             checkAssignmentConstraints(course, loads[ins[p[1]].id], fs[p[2]],
                                                        Constraints(r))}}

PairCost(r, pair) ==
    calculateComprehensiveCost(CourseAtTurn(r), pair.instructor, pair.facility,
                               allocIn.resources.equipment, NoCostStructures).totalCost

\* C24: under cost minimization the assignment found for a course has the
\* lowest comprehensive total cost among the compatible pairs that pass the
\* constraint check at its turn, and among the pairs of that cost it is the
\* first in generation order; a course gets none only when no pair passes.
C24_CheapestPairFirstWins ==
    \A r \in Runs :
        (run[r].pc = "loop" /\ Strategy(r) = COST_MINIMIZATION) =>
            IF PassingPairs(r) = {}
            THEN run[r].pending = NoAssignment
            ELSE \E chosen \in PassingPairs(r) :
                    /\ run[r].pending.instructorId = chosen.instructor.id
                    /\ run[r].pending.facilityId = chosen.facility.id
                    /\ run[r].pending.cost = PairCost(r, chosen)
                    /\ \A other \in PassingPairs(r) :
                           \/ PairCost(r, chosen) < PairCost(r, other)
                           \/ /\ PairCost(r, chosen) = PairCost(r, other)
                              /\ chosen.place <= other.place

\* a course whose cheapest pair is not the first in generation order, with
\* a second pair of the same lowest cost generated after the one chosen
C24_Witness ==
    /\ run[1].pc = "loop" /\ Strategy(1) = COST_MINIMIZATION
    /\ \E chosen, tied, first \in PassingPairs(1) :
          /\ run[1].pending.instructorId = chosen.instructor.id
          /\ run[1].pending.facilityId = chosen.facility.id
          /\ PairCost(1, tied) = PairCost(1, chosen) /\ chosen.place < tied.place
          /\ first.place = 1 /\ PairCost(1, chosen) < PairCost(1, first)

\* the sort key orders of the strategies: TRUE when course a may stand
\* before course b
InKeyOrder(strategy, a, b) ==
    LET perStudent(c) == Rat(c.instructor_cost + c.classroom_cost,
                             IF c.expected_students > 1 THEN c.expected_students ELSE 1)
        weight(c) == calculateCoursePriority(c) * calculateCourseComplexity(c)
    IN  CASE strategy = COST_MINIMIZATION        -> RLe(perStudent(a), perStudent(b))
          [] strategy = UTILIZATION_MAXIMIZATION -> a.expected_students >= b.expected_students
          [] strategy = QUALITY_FOCUSED          -> weight(a) >= weight(b)
          [] OTHER                               -> TRUE

\* the assignments a run has committed so far, or returned
Committed(r) ==
    IF run[r].pc = "returned" THEN run[r].plan.assignments ELSE run[r].allocation.assignments

\* the place of a course in the list the run works on
PlaceOf(r, courseId) ==
    CHOOSE k \in 1..Len(heap[run[r].data.courses].courses) :
        heap[run[r].data.courses].courses[k].id = courseId

\* C25: a strategy processes the courses in the order of its sort key
\* (ascending cost per student, descending expected students, descending
\* priority x complexity): the list it loops over is in key order, a course
\* is committed only once its turn has come, and the assignments, committed
\* so far or returned, follow that order.
C25_CommittedInSortKeyOrder ==
    \A r \in Runs :
        run[r].pc \in {"loop", "post", "returned"} =>
            LET courses == heap[run[r].data.courses].courses
                assignments == Committed(r)
            IN  /\ \A j, k \in 1..Len(courses) :
                       j < k => InKeyOrder(Strategy(r), courses[j], courses[k])
                /\ \A j, k \in 1..Len(assignments) :
                       j < k => PlaceOf(r, assignments[j].courseId)
                                   < PlaceOf(r, assignments[k].courseId)
                /\ run[r].pc = "loop" =>
                       \A j \in 1..Len(assignments) :
                           PlaceOf(r, assignments[j].courseId) < run[r].index

\* a returned plan of one of the three strategies whose first assignment is
\* for a course the caller listed after the course of the second one
C25_Witness ==
    /\ run[1].pc = "returned"
    /\ Strategy(1) \in {COST_MINIMIZATION, UTILIZATION_MAXIMIZATION, QUALITY_FOCUSED}
    /\ Len(run[1].plan.assignments) >= 2
    /\ \E j, k \in 1..Len(allocIn.courses) :
          /\ j < k
          /\ allocIn.courses[k].id = run[1].plan.assignments[1].courseId
          /\ allocIn.courses[j].id = run[1].plan.assignments[2].courseId

\* the texts of the recommendations of a scenario analysis
RecommendationTexts(result) ==
    {result.recommendations[k][1] : k \in 1..Len(result.recommendations)}

\* 20% of the base total cost
ScenarioThreshold == RMul(calc.base["totalCost"].num, Rat(20, 100))

\* C26: generateScenarioAnalysis recommends only past the threshold of 20% of
\* the base total cost: the recommendation about the optimistic scenario is
\* given only when its savings exceed the threshold, the one about the
\* pessimistic scenario only when its increase exceeds it.
C26_RecommendationsPastThreshold ==
    calc.pc = "returned" =>
        /\ "Potential savings in optimistic scenario" \in RecommendationTexts(calc.result) =>
               RLt(ScenarioThreshold,
                   RSub(calc.base["totalCost"].num,
                        calc.result.scenarios.optimistic["totalCost"].num))
        /\ "High risk scenario shows >20% cost increase - consider risk mitigation"
               \in RecommendationTexts(calc.result) =>
               RLt(ScenarioThreshold,
                   RSub(calc.result.scenarios.pessimistic["totalCost"].num,
                        calc.base["totalCost"].num))

\* C27: under each of the four strategies a course is left without an
\* assignment only when no compatible (instructor, facility) pair passes
\* checkAssignmentConstraints at its turn; this includes a course with no
\* expected students while every instructor's load is 0.
C27_UnassignedOnlyWithoutPassingPair ==
    \A r \in Runs :
        (run[r].pc = "loop" /\ run[r].pending = NoAssignment) => PassingPairs(r) = {}

\* the currentLoad fields of the instructor objects a run works on
LoadsOf(r) == heap[run[r].data.instructors].currentLoad

\* C28: in every state of a run of allocateResources, from the preprocessing
\* to the return, the currentLoad of each instructor object of the run is the
\* number of assignments the run has committed that name the instructor, and
\* it is at most the maxInstructorLoad in force for the run (6 unless the
\* caller passes another value).
C28_LoadCountsCommitted ==
    \A r \in Runs :
        run[r].pc \in {"preprocess", "dispatch", "loop", "post", "returned"} =>
            \A i \in InstructorIds :
                /\ LoadsOf(r)[i] = Occurrences(Committed(r), "instructorId", i)
                /\ LoadsOf(r)[i] <= Constraints(r).maxInstructorLoad

\* two runs in their loops at once: an instructor at the limit of one run,
\* which is the caller's limit of 1, while the other run, under the default
\* limit, is about to commit its first course to that instructor
C28_Witness ==
    \E a, b \in Runs :
        /\ run[a].pc = "loop" /\ run[b].pc = "loop"
        /\ \E i \in InstructorIds :
              /\ LoadsOf(a)[i] = 1 /\ Constraints(a).maxInstructorLoad = 1
              /\ LoadsOf(b)[i] = 0 /\ Constraints(b).maxInstructorLoad = maxInstructorLoad
              /\ run[b].pending.instructorId = i

\* a candidate that is one of the assignments
IsCommitted(assignments, combination) ==
    \E j \in 1..Len(assignments) :
        /\ assignments[j].courseId = combination.courseId
        /\ assignments[j].instructorId = combination.instructorId
        /\ assignments[j].facilityId = combination.facilityId

\* C29: the result of greedyOptimization is maximal and in order: every
\* candidate that was not committed has its instructor named by a committed
\* assignment, or its facility, or a cost that would take the spending of
\* the department of its course above 95% of that department's budget; and
\* the committed assignments are in descending utilityScore order (costs
\* are in tenths and are never negative).
C29_GreedyMaximalInOrder ==
    \A r \in OptRuns :
        opt[r].pc = "returned" =>
            LET assignments == opt[r].plan.courseAssignments
            IN  /\ \A k \in 1..Len(OptCombinations) :
                       LET combination == OptCombinations[k]
                           d == CourseDepartment(combination.courseId)
                       IN  \/ IsCommitted(assignments, combination)
                           \/ combination.instructorId \in Ids(assignments, "instructorId")
                           \/ combination.facilityId \in Ids(assignments, "facilityId")
                           \/ /\ optIn.budget[d] # Undefined
                              /\ 100 * (DepartmentSpend(assignments, d, 1) + combination.cost)
                                     > 10 * optIn.budget[d] * (100 - budgetBufferPercent)
                /\ \A j, k \in 1..Len(assignments) :
                       j < k => assignments[j].utilityScore >= assignments[k].utilityScore

\* the input of the runs is refused by validateAllocationInputs
validationFails ==
    allocationError(allocIn.resources, allocIn.coursesType, allocIn.courses) # ""

\* the plan a strategy returns on the input of the run
PlanUnder(strategy, r) ==
    PlanAlone(strategy, allocIn.args[r].constraints, allocIn.resources, allocIn.courses)

\* the (course, instructor, facility) triples of a plan, in order
Triples(plan) ==
    [k \in 1..Len(plan.assignments) |->
        <<plan.assignments[k].courseId, plan.assignments[k].instructorId,
          plan.assignments[k].facilityId>>]

\* C30: a run of allocateResources whose strategy name is none of the four
\* runs the balanced strategy: it is dispatched to balanced throughout, the
\* name raises no error (the run throws only the error of the input
\* validation, which every strategy throws on that input), and the plan it
\* returns is the plan the strategy 'balanced' returns on the same
\* resources, courses and constraints.
C30_UnknownStrategyRunsBalanced ==
    \A r \in Runs :
        (run[r].pc # "idle" /\ allocIn.args[r].strategy \notin allocationStrategies) =>
            /\ Strategy(r) = BALANCED
            /\ run[r].pc = "threw" =>
                  /\ validationFails
                  /\ run[r].error = allocationError(allocIn.resources, allocIn.coursesType,
                                                    allocIn.courses)
            /\ run[r].pc = "returned" => run[r].plan = PlanUnder(BALANCED, r)

\* a plan returned under the name 'fastest' with two assignments, which none
\* of the other three strategies would have returned
C30_Witness ==
    /\ run[1].pc = "returned" /\ allocIn.args[1].strategy = "fastest"
    /\ Len(run[1].plan.assignments) >= 2
    /\ \A st \in allocationStrategies \ {BALANCED} :
           Triples(PlanUnder(st, 1)) # Triples(run[1].plan)
====
